---- MODULE Spec2Model ----
(***************************************************************************)
(* Model of the ranking merger of uniscraper                               *)
(* (src/processors/merge_rankings.py) and of its name unifier              *)
(* (src/scripts/merge_uni.py).                                             *)
(*                                                                         *)
(* Text is modelled at character level: a Python str is a sequence of      *)
(* one-character strings, so that strip/lower/replace/regex steps are      *)
(* computed as the code computes them.  A missing value (None / NaN) is    *)
(* NaN for a text cell and Null for an opaque cell (rank, status,          *)
(* coordinate).                                                            *)
(***************************************************************************)
EXTENDS Integers, Sequences, FiniteSets, TLC

VARIABLES
    pc,
    qs_csv, the_csv, usnews_csv,
    qs_df, the_df, usnews_df,
    merged_list, lookup, pos,
    the_matched, the_new, usnews_matched, usnews_new,
    row_a, row_b, same,
    df, used_indices, merged_groups, dpos, keep_rows, merge_count, merge_details, result,
    all_unis, uni_idx, unique_records, seen_names, merged_df,
    raw, other, once, other_once, twice,
    columns, merged_file, return_code,
    university_urls, csv_name, csv_rank, url, raised,
    df_input, input_idx, progress, progress_file, csv_output, fetched, runs,
    n_chunks, chunks, out_rows, worker_output, worker_idx, worker_pc

mergeVars == <<qs_csv, the_csv, usnews_csv, qs_df, the_df, usnews_df,
               merged_list, lookup, pos,
               the_matched, the_new, usnews_matched, usnews_new>>

\* The two rows handed to is_same_university and its answer.
keyVars == <<row_a, row_b, same>>

\* The locals of deduplicate_fuzzy.
dedupVars == <<df, used_indices, merged_groups, dpos, keep_rows, merge_count,
               merge_details, result>>

\* The module-level names of merge_uni.py.
unifyVars == <<all_unis, uni_idx, unique_records, seen_names, merged_df>>

\* One normalizer under application: its input, a second input, and the
\* results of applying it once to each and twice to the first.
normVars == <<raw, other, once, other_once, twice>>

\* main(): the columns of the three input files, the file written by to_csv
\* and the value returned.
mainVars == <<columns, merged_file, return_code>>

\* The URL cache of the two scrapers and a call of find_matching_url: its
\* arguments, the value returned and the exception raised.
urlVars == <<university_urls, csv_name, csv_rank, url, raised>>

\* QSScraper.run: the input table, the place in it, the progress map in
\* memory and on disk, the output file, the pages requested from the site and
\* the number of runs finished.
runVars == <<df_input, input_idx, progress, progress_file, csv_output, fetched, runs>>

\* The parallel scraper: the number of chunks, the chunks, and the rows, the
\* output file, the place in the chunk and the position of every worker.
workerVars == <<n_chunks, chunks, out_rows, worker_output, worker_idx, worker_pc>>

scraperVars == <<urlVars, runVars, workerVars>>

outsideMerge == <<keyVars, dedupVars, unifyVars, normVars, mainVars, scraperVars>>

outsideKeys == <<mergeVars, dedupVars, unifyVars, normVars, mainVars, scraperVars>>

outsideDedup == <<mergeVars, keyVars, unifyVars, normVars, mainVars, scraperVars>>

outsideUnify == <<mergeVars, keyVars, dedupVars, normVars, mainVars, scraperVars>>

outsideNorm == <<mergeVars, keyVars, dedupVars, unifyVars, mainVars, scraperVars>>

outsideScrapers == <<mergeVars, keyVars, dedupVars, unifyVars, normVars, mainVars>>

vars == <<pc, mergeVars, keyVars, dedupVars, unifyVars, normVars, mainVars, scraperVars>>

\* ------------------------------------------------------------------------
\* Values
\* ------------------------------------------------------------------------

\* pd.isna(x) for a text cell: the cell read from an empty CSV field.
NaN == <<"NaN">>

\* None / NaN in an opaque cell (rank, status, coordinate).
Null == "NaN"

\* None in a cell that is read as text.
None == <<"None">>

\* A value that is no str is written as the tag of its type followed by the
\* characters str() gives for it; a str never starts with a tag, its elements
\* being single characters.
TypeTags == {"NaN", "None", "int", "float", "bool"}

\* isinstance(v, str)
isinstance_str(v) == v = <<>> \/ Head(v) \notin TypeTags

\* str(v)
str(v) ==
    IF isinstance_str(v) THEN v
    ELSE IF v = <<"NaN">> THEN <<"n","a","n">>
    ELSE IF v = <<"None">> THEN <<"N","o","n","e">>
    ELSE Tail(v)

\* not v: the empty str, None, False and a zero are falsy.
falsy(v) ==
    IF isinstance_str(v) THEN v = <<>>
    ELSE \/ v = <<"None">>
         \/ v = <<"bool","F","a","l","s","e">>
         \/ /\ Head(v) \in {"int", "float"}
            /\ Tail(v) \in { <<"0">>, <<"0",".","0">>, <<"-","0",".","0">> }

\* pd.isna / pd.notna, on a text cell and on an opaque cell.
isna(v) == v \in {<<"NaN">>, <<"None">>}

isnull(v) == v = Null

\* ------------------------------------------------------------------------
\* Character helpers (str.lower, str.strip, \s of the re module)
\* ------------------------------------------------------------------------

IsSpace(c) == c \in {" ", "\t"}

ToLower(c) ==
    CASE c = "A" -> "a" [] c = "B" -> "b" [] c = "C" -> "c" [] c = "D" -> "d"
      [] c = "E" -> "e" [] c = "F" -> "f" [] c = "G" -> "g" [] c = "H" -> "h"
      [] c = "I" -> "i" [] c = "J" -> "j" [] c = "K" -> "k" [] c = "L" -> "l"
      [] c = "M" -> "m" [] c = "N" -> "n" [] c = "O" -> "o" [] c = "P" -> "p"
      [] c = "Q" -> "q" [] c = "R" -> "r" [] c = "S" -> "s" [] c = "T" -> "t"
      [] c = "U" -> "u" [] c = "V" -> "v" [] c = "W" -> "w" [] c = "X" -> "x"
      [] c = "Y" -> "y" [] c = "Z" -> "z" [] OTHER -> c

lower(s) == [i \in 1..Len(s) |-> ToLower(s[i])]

RECURSIVE lstrip(_)
lstrip(s) ==
    IF s # <<>> /\ IsSpace(Head(s)) THEN lstrip(Tail(s)) ELSE s

RECURSIVE rstrip(_)
rstrip(s) ==
    IF s # <<>> /\ IsSpace(s[Len(s)]) THEN rstrip(SubSeq(s, 1, Len(s) - 1)) ELSE s

strip(s) == rstrip(lstrip(s))

\* s.replace(",", " ")
replace_comma(s) == [i \in 1..Len(s) |-> IF s[i] = "," THEN " " ELSE s[i]]

\* re.sub(r"\s+", " ", s): every maximal run of whitespace becomes one space.
RECURSIVE collapse_spaces(_)
collapse_spaces(s) ==
    IF s = <<>> THEN <<>>
    ELSE IF IsSpace(Head(s))
         THEN <<" ">> \o collapse_spaces(lstrip(s))
         ELSE <<Head(s)>> \o collapse_spaces(Tail(s))

startswith(s, p) == Len(p) <= Len(s) /\ SubSeq(s, 1, Len(p)) = p

\* re.sub(r"^the\s+", "", s): one leading "the" with the whitespace after it.
strip_leading_the(s) ==
    IF startswith(s, <<"t","h","e">>) /\ Len(s) > 3 /\ IsSpace(s[4])
    THEN lstrip(SubSeq(s, 4, Len(s)))
    ELSE s

\* t in s (substring test)
contains(s, t) == \E i \in 0..(Len(s) - Len(t)) : SubSeq(s, i + 1, i + Len(t)) = t

\* ------------------------------------------------------------------------
\* Normalizers
\* ------------------------------------------------------------------------

normalize_name(name) ==
    IF isna(name) \/ falsy(name) THEN <<>>
    ELSE strip_leading_the(strip(collapse_spaces(replace_comma(lower(strip(str(name)))))))

\* Mutant of country_map: "US" is mapped to another alias.
country_map_chained(c) ==
    CASE c = <<"U","n","i","t","e","d"," ","S","t","a","t","e","s">>
           -> <<"U","n","i","t","e","d"," ","S","t","a","t","e","s"," ","o","f"," ","A","m","e","r","i","c","a">>
      [] c = <<"U","S","A">>
           -> <<"U","n","i","t","e","d"," ","S","t","a","t","e","s"," ","o","f"," ","A","m","e","r","i","c","a">>
      [] c = <<"U","S">>
           -> <<"U","S","A">>
      [] c = <<"U","K">>
           -> <<"U","n","i","t","e","d"," ","K","i","n","g","d","o","m">>
      [] c = <<"S","o","u","t","h"," ","K","o","r","e","a">>
           -> <<"R","e","p","u","b","l","i","c"," ","o","f"," ","K","o","r","e","a">>
      [] c = <<"N","o","r","t","h"," ","K","o","r","e","a">>
           -> <<"D","e","m","o","c","r","a","t","i","c"," ","P","e","o","p","l","e","'","s"," ","R","e","p","u","b","l","i","c"," ","o","f"," ","K","o","r","e","a">>
      [] c = <<"N","e","t","h","e","r","l","a","n","d","s">>
           -> <<"N","e","t","h","e","r","l","a","n","d","s">>
      [] c = <<"H","o","l","l","a","n","d">>
           -> <<"N","e","t","h","e","r","l","a","n","d","s">>
      [] c = <<"M","a","c","a","o">>
           -> <<"M","a","c","a","u">>
      [] OTHER -> c

country_map(c) ==
    CASE c = <<"U","n","i","t","e","d"," ","S","t","a","t","e","s">>
           -> <<"U","n","i","t","e","d"," ","S","t","a","t","e","s"," ","o","f"," ","A","m","e","r","i","c","a">>
      [] c = <<"U","S","A">>
           -> <<"U","n","i","t","e","d"," ","S","t","a","t","e","s"," ","o","f"," ","A","m","e","r","i","c","a">>
      [] c = <<"U","S">>
           -> <<"U","n","i","t","e","d"," ","S","t","a","t","e","s"," ","o","f"," ","A","m","e","r","i","c","a">>
      [] c = <<"U","K">>
           -> <<"U","n","i","t","e","d"," ","K","i","n","g","d","o","m">>
      [] c = <<"S","o","u","t","h"," ","K","o","r","e","a">>
           -> <<"R","e","p","u","b","l","i","c"," ","o","f"," ","K","o","r","e","a">>
      [] c = <<"N","o","r","t","h"," ","K","o","r","e","a">>
           -> <<"D","e","m","o","c","r","a","t","i","c"," ","P","e","o","p","l","e","'","s"," ","R","e","p","u","b","l","i","c"," ","o","f"," ","K","o","r","e","a">>
      [] c = <<"N","e","t","h","e","r","l","a","n","d","s">>
           -> <<"N","e","t","h","e","r","l","a","n","d","s">>
      [] c = <<"H","o","l","l","a","n","d">>
           -> <<"N","e","t","h","e","r","l","a","n","d","s">>
      [] c = <<"M","a","c","a","o">>
           -> <<"M","a","c","a","u">>
      [] OTHER -> c

normalize_country(country) ==
    IF isna(country) THEN <<>> ELSE strip(country_map(strip(str(country))))

private_terms ==
    { <<"p","r","i","v","a","t","e">>,
      <<"n","o","t"," ","f","o","r"," ","p","r","o","f","i","t">>,
      <<"i","n","d","e","p","e","n","d","e","n","t">>,
      <<"p","r","o","p","r","i","e","t","a","r","y">> }

public_terms ==
    { <<"p","u","b","l","i","c">>,
      <<"g","o","v","e","r","n","m","e","n","t">>,
      <<"s","t","a","t","e">>,
      <<"f","e","d","e","r","a","l">> }

\* Mutant of normalize_nature_of_running: the public indicators are looked
\* for first.
normalize_nature_of_running_public_first(status) ==
    IF isna(status) THEN Null
    ELSE LET s == lower(strip(str(status))) IN
         IF \E t \in public_terms : contains(s, t) THEN "Public"
         ELSE IF \E t \in private_terms : contains(s, t) THEN "Private"
         ELSE Null

normalize_nature_of_running(status) ==
    IF isna(status) THEN Null
    ELSE LET s == lower(strip(str(status))) IN
         IF \E t \in private_terms : contains(s, t) THEN "Private"
         ELSE IF \E t \in public_terms : contains(s, t) THEN "Public"
         ELSE Null

EXCLUDE_COUNTRIES ==
    { <<"C","h","i","n","a"," ","(","M","a","i","n","l","a","n","d",")">>,
      <<"C","h","i","n","a">>,
      <<"T","a","i","w","a","n">>,
      <<"H","o","n","g"," ","K","o","n","g"," ","S","A","R",","," ","C","h","i","n","a">>,
      <<"H","o","n","g"," ","K","o","n","g">>,
      <<"M","a","c","a","o">>,
      <<"M","a","c","a","u">>,
      <<"M","a","c","a","o"," ","S","A","R",","," ","C","h","i","n","a">> }

\* Mutant of is_china_related: the cell is compared as it is, untrimmed.
is_china_related_unstripped(country) ==
    IF isna(country) THEN FALSE ELSE country \in EXCLUDE_COUNTRIES

is_china_related(country) ==
    IF isna(country) THEN FALSE ELSE strip(country) \in EXCLUDE_COUNTRIES

\* ------------------------------------------------------------------------
\* Bracket-aware name keys (extract_base_and_alias, build_name_keys)
\* ------------------------------------------------------------------------

\* Bracket contents that are no alias of the institution (line 183).
ignore_patterns ==
    { <<"u","s","a">>,
      <<"u","k">>,
      <<"u",".","k",".">>,
      <<"u","s">>,
      <<"u",".","s",".">>,
      <<"c","h","i","n","a">>,
      <<"p","r","c">>,
      <<"c","a","n","a","d","a">>,
      <<"a","u","s","t","r","a","l","i","a">>,
      <<"n","z">>,
      <<"n",".","z",".">>,
      <<"s","i","n","g","a","p","o","r","e">>,
      <<"s","g">>,
      <<"h","o","n","g"," ","k","o","n","g">>,
      <<"h","k">>,
      <<"t","a","i","w","a","n">>,
      <<"j","a","p","a","n">>,
      <<"j","p">>,
      <<"s","o","u","t","h"," ","k","o","r","e","a">>,
      <<"k","o","r","e","a">>,
      <<"i","n","d","i","a">>,
      <<"i","n">>,
      <<"g","e","r","m","a","n","y">>,
      <<"d","e">>,
      <<"f","r","a","n","c","e">>,
      <<"f","r">>,
      <<"m","a","i","n"," ","c","a","m","p","u","s">>,
      <<"m","a","i","n"," ","c","a","m","p","u","s",".">>,
      <<"m","a","i","n">>,
      <<"b","r","a","n","c","h">>,
      <<"b","r","a","n","c","h"," ","c","a","m","p","u","s">>,
      <<"c","a","m","p","u","s">>,
      <<"s","t","a","t","e">>,
      <<"c","i","t","y">>,
      <<"c","e","n","t","e","r">>,
      <<"c","e","n","t","r","e">>,
      <<"f","o","r","m","e","r","l","y">>,
      <<"f",".","k",".","a">>,
      <<"f",".","k",".","a",".">>,
      <<"a","k","a">>,
      <<"p","r","e","v","i","o","u","s","l","y">>,
      <<"m","e","r","g","e","d"," ","f","r","o","m">> }

disallowed_short ==
    { <<"u","s","a">>,
      <<"u","k">>,
      <<"u","s">>,
      <<"p","r","c">>,
      <<"n","z">>,
      <<"s","g">>,
      <<"h","k">>,
      <<"d","e">>,
      <<"f","r">>,
      <<"j","p">>,
      <<"i","n">> }

abbreviation_keys ==
    { <<"m","i","t">>,
      <<"c","a","l","t","e","c","h">>,
      <<"e","t","h"," ","z","u","r","i","c","h">>,
      <<"n","u","s">>,
      <<"n","t","u"," ","s","i","n","g","a","p","o","r","e">>,
      <<"u","c","l">>,
      <<"u","c"," ","b","e","r","k","e","l","e","y">>,
      <<"u","c","l","a">>,
      <<"u","s","c">>,
      <<"u","c","s","d">>,
      <<"n","y","u">>,
      <<"u","c">>,
      <<"l","s","e">>,
      <<"e","t","h">> }

abbreviations(alias_norm) ==
    CASE alias_norm = <<"m","i","t">>
           -> <<"m","a","s","s","a","c","h","u","s","e","t","t","s"," ","i","n","s","t","i","t","u","t","e"," ","o","f"," ","t","e","c","h","n","o","l","o","g","y">>
      [] alias_norm = <<"c","a","l","t","e","c","h">>
           -> <<"c","a","l","i","f","o","r","n","i","a"," ","i","n","s","t","i","t","u","t","e"," ","o","f"," ","t","e","c","h","n","o","l","o","g","y">>
      [] alias_norm = <<"e","t","h"," ","z","u","r","i","c","h">>
           -> <<"s","w","i","s","s"," ","f","e","d","e","r","a","l"," ","i","n","s","t","i","t","u","t","e"," ","o","f"," ","t","e","c","h","n","o","l","o","g","y"," ","z","u","r","i","c","h">>
      [] alias_norm = <<"n","u","s">>
           -> <<"n","a","t","i","o","n","a","l"," ","u","n","i","v","e","r","s","i","t","y"," ","o","f"," ","s","i","n","g","a","p","o","r","e">>
      [] alias_norm = <<"n","t","u"," ","s","i","n","g","a","p","o","r","e">>
           -> <<"n","a","n","y","a","n","g"," ","t","e","c","h","n","o","l","o","g","i","c","a","l"," ","u","n","i","v","e","r","s","i","t","y"," ","s","i","n","g","a","p","o","r","e">>
      [] alias_norm = <<"u","c","l">>
           -> <<"u","n","i","v","e","r","s","i","t","y"," ","c","o","l","l","e","g","e"," ","l","o","n","d","o","n">>
      [] alias_norm = <<"u","c"," ","b","e","r","k","e","l","e","y">>
           -> <<"u","n","i","v","e","r","s","i","t","y"," ","o","f"," ","c","a","l","i","f","o","r","n","i","a"," ","b","e","r","k","e","l","e","y">>
      [] alias_norm = <<"u","c","l","a">>
           -> <<"u","n","i","v","e","r","s","i","t","y"," ","o","f"," ","c","a","l","i","f","o","r","n","i","a"," ","l","o","s"," ","a","n","g","e","l","e","s">>
      [] alias_norm = <<"u","s","c">>
           -> <<"u","n","i","v","e","r","s","i","t","y"," ","o","f"," ","s","o","u","t","h","e","r","n"," ","c","a","l","i","f","o","r","n","i","a">>
      [] alias_norm = <<"u","c","s","d">>
           -> <<"u","n","i","v","e","r","s","i","t","y"," ","o","f"," ","c","a","l","i","f","o","r","n","i","a"," ","s","a","n"," ","d","i","e","g","o">>
      [] alias_norm = <<"n","y","u">>
           -> <<"n","e","w"," ","y","o","r","k"," ","u","n","i","v","e","r","s","i","t","y">>
      [] alias_norm = <<"u","c">>
           -> <<"u","n","i","v","e","r","s","i","t","y"," ","o","f"," ","c","a","l","i","f","o","r","n","i","a">>
      [] alias_norm = <<"l","s","e">>
           -> <<"l","o","n","d","o","n"," ","s","c","h","o","o","l"," ","o","f"," ","e","c","o","n","o","m","i","c","s">>
      [] alias_norm = <<"e","t","h">>
           -> <<"s","w","i","s","s"," ","f","e","d","e","r","a","l"," ","i","n","s","t","i","t","u","t","e"," ","o","f"," ","t","e","c","h","n","o","l","o","g","y">>

common_words ==
    { <<"u","n","i","v","e","r","s","i","t","y">>,
      <<"c","o","l","l","e","g","e">>,
      <<"i","n","s","t","i","t","u","t","e">>,
      <<"s","c","h","o","o","l">>,
      <<"a","c","a","d","e","m","y">>,
      <<"c","e","n","t","e","r">>,
      <<"c","e","n","t","r","e">> }

\* Index of the first c in s at or after place i, 0 when there is none.
RECURSIVE find_from(_, _, _)
find_from(s, c, i) ==
    IF i > Len(s) THEN 0
    ELSE IF s[i] = c THEN i
    ELSE find_from(s, c, i + 1)

find(s, c) == find_from(s, c, 1)

\* re.match(r"^(.*?)\s*\((.*?)\)\s*$", name) on a stripped name: the lazy
\* first group ends before the first "(", the second group runs to the ")"
\* that ends the name.
bracket_match(name) == find(name, "(") > 0 /\ name[Len(name)] = ")"

\* Mutant of extract_base_and_alias: an alias is dropped only when it equals a
\* stoplist entry, not when it starts with one.
extract_base_and_alias_equal_only(name) ==
    IF ~isinstance_str(name) THEN << <<>>, <<>> >>
    ELSE LET nm == lower(strip(name)) IN
         IF bracket_match(nm)
         THEN LET open == find(nm, "(")
                  base == strip(SubSeq(nm, 1, open - 1))
                  alias == strip(SubSeq(nm, open + 1, Len(nm) - 1))
              IN  IF alias \in ignore_patterns
                  THEN <<base, <<>> >>
                  ELSE <<base, alias>>
         ELSE <<nm, <<>> >>

\* (base, alias) of a raw name; ("", "") for a name that is no str.
extract_base_and_alias(name) ==
    IF ~isinstance_str(name) THEN << <<>>, <<>> >>
    ELSE LET nm == lower(strip(name)) IN
         IF bracket_match(nm)
         THEN LET open == find(nm, "(")
                  base == strip(SubSeq(nm, 1, open - 1))
                  alias == strip(SubSeq(nm, open + 1, Len(nm) - 1))
              IN  IF alias \in ignore_patterns
                  THEN <<base, <<>> >>
                  ELSE IF \E pattern \in ignore_patterns : startswith(alias, pattern)
                       THEN <<base, <<>> >>
                       ELSE <<base, alias>>
         ELSE <<nm, <<>> >>

\* Mutant of build_name_keys: the bracketed alias is never made a key.
build_name_keys_without_alias(name) ==
    LET base_alias == extract_base_and_alias(name)
        base == base_alias[1]
        base_norm == normalize_name(base)
        name_norm == normalize_name(name)
    IN  (IF name_norm # <<>> THEN {name_norm} ELSE {})
            \cup (IF base_norm # <<>> THEN {base_norm} ELSE {})

build_name_keys(name) ==
    LET base_alias == extract_base_and_alias(name)
        base == base_alias[1]
        alias == base_alias[2]
        base_norm == normalize_name(base)
        alias_norm == IF alias # <<>> THEN normalize_name(alias) ELSE <<>>
        name_norm == normalize_name(name)
    IN  (IF name_norm # <<>> THEN {name_norm} ELSE {})
            \cup (IF base_norm # <<>> THEN {base_norm} ELSE {})
            \cup (IF alias_norm # <<>> /\ Len(alias_norm) > 2
                        /\ lower(alias_norm) \notin disallowed_short
                   THEN {alias_norm} ELSE {})
            \cup (IF alias_norm # <<>> /\ alias_norm \in abbreviation_keys
                   THEN {abbreviations(alias_norm)} ELSE {})

\* ------------------------------------------------------------------------
\* is_same_university
\* ------------------------------------------------------------------------

\* set(key.split()): the words of a key.
RECURSIVE split(_)
split(s) ==
    LET t == lstrip(s) IN
    IF t = <<>> THEN {}
    ELSE LET sp == find_from(t, " ", 1)
             tb == find_from(t, "\t", 1)
             n == IF sp = 0 /\ tb = 0 THEN Len(t)
                  ELSE IF sp = 0 THEN tb - 1
                  ELSE IF tb = 0 THEN sp - 1
                  ELSE IF sp < tb THEN sp - 1 ELSE tb - 1
         IN  {SubSeq(t, 1, n)} \cup split(SubSeq(t, n + 1, Len(t)))

\* Mutant of row_country: the countries are compared with their case.
row_country_with_case(row) ==
    IF row.Country = <<>> THEN <<>>
    ELSE IF isna(row.Country) THEN <<"n","a","n">>
    ELSE strip(row.Country)

\* str(row.get("Country", "")).strip().lower() if row.get("Country") else ""
row_country(row) ==
    IF row.Country = <<>> THEN <<>>
    ELSE IF isna(row.Country) THEN <<"n","a","n">>
    ELSE lower(strip(row.Country))

\* Mutant of has_substantial_match: any common key counts.
has_substantial_match_any_key(intersection) == intersection # {}

\* Lines 367-374: some common key has a word that is no generic word.
has_substantial_match(intersection) ==
    \E key \in intersection : ~(split(key) \subseteq common_words)

is_same_university(a, b) ==
    IF row_country(a) = <<>> \/ row_country(b) = <<>> \/ row_country(a) # row_country(b)
    THEN FALSE
    ELSE IF a.name_keys \cap b.name_keys = {}
    THEN FALSE
    ELSE has_substantial_match(a.name_keys \cap b.name_keys)

\* ------------------------------------------------------------------------
\* Input tables (the CSV files read by load_and_clean_*)
\* ------------------------------------------------------------------------

\* Most rows read from the three CSV files together.
MaxRows == 4

\* Raw institution names: the first two differ only in case, a comma and a
\* leading "the"; the third is another institution.
RawNames ==
    { <<"M","I","T">>, <<"t","h","e"," ","M","i","t",",">>, <<"U","C","L">> }

\* Raw Region / Country cells of the QS and THE files.
RawCountries == { <<"U","S">>, <<"U","K">> }

\* Rank, Status and coordinate cells are fixed by the row's place in its file:
\* the ranks of a file are pairwise different, so that a row is told by its rank.
QsRanks == <<"q1", "q2", "q3", "q4", "q5", "q6">>

TheRanks == <<"t1", "t2", "t3", "t4", "t5", "t6">>

UsnewsRanks == <<"u1", "u2", "u3", "u4", "u5", "u6">>

QsStatuses ==
    << <<"P","r","i","v","a","t","e"," ","n","o","t"," ","f","o","r"," ","p","r","o","f","i","t">>,
       <<"P","u","b","l","i","c">>,
       NaN,
       <<"S","t","a","t","e">>,
       <<"o","t","h","e","r">>,
       <<"P","u","b","l","i","c">> >>

QsCsvTables(n) ==
    { [i \in 1..n |-> [Name |-> nm[i], Region |-> rg[i], Rank |-> QsRanks[i],
                       Status |-> QsStatuses[i],
                       Latitude |-> "lat", Longitude |-> "lon"]] :
      nm \in [1..n -> RawNames], rg \in [1..n -> RawCountries] }

TheCsvTables(n) ==
    { [i \in 1..n |-> [Name |-> nm[i], Country |-> rg[i], Rank |-> TheRanks[i]]] :
      nm \in [1..n -> RawNames], rg \in [1..n -> RawCountries] }

UsnewsCsvTables(n) ==
    { [i \in 1..n |-> [Name |-> nm[i], Rank |-> UsnewsRanks[i]]] :
      nm \in [1..n -> RawNames] }

\* The columns each loader reads from its file.
QsColumns == {"Name", "Region", "Rank", "Status", "Latitude", "Longitude"}

TheColumns == {"Name", "Country", "Rank"}

UsnewsColumns == {"Name", "Rank"}

\* The columns of three files that lack none.
CompleteColumns == [qs |-> QsColumns, the |-> TheColumns, usnews |-> UsnewsColumns]

\* Mutant of has_columns: a missing column goes unnoticed.
has_columns_unchecked(present, read) == TRUE

\* df[col] and df[[...]] raise KeyError unless every column read is present.
has_columns(present, read) == read \subseteq present

\* ------------------------------------------------------------------------
\* load_and_clean_qs / load_and_clean_the / load_and_clean_usnews
\* ------------------------------------------------------------------------

clean_qs(csv) ==
    LET NotChina(r) == ~is_china_related(r.Region)
        kept == SelectSeq(csv, NotChina)
    IN  [i \in 1..Len(kept) |->
            [Name |-> kept[i].Name,
             country |-> normalize_country(kept[i].Region),
             qs_rank |-> kept[i].Rank,
             status |-> normalize_nature_of_running(kept[i].Status),
             Latitude |-> kept[i].Latitude,
             Longitude |-> kept[i].Longitude,
             name_normalized |-> normalize_name(kept[i].Name)]]

clean_the(csv) ==
    LET NotChina(r) == ~is_china_related(r.Country)
        kept == SelectSeq(csv, NotChina)
    IN  [i \in 1..Len(kept) |->
            [Name |-> kept[i].Name,
             country |-> normalize_country(kept[i].Country),
             the_rank |-> kept[i].Rank,
             name_normalized |-> normalize_name(kept[i].Name)]]

usnews_country ==
    <<"U","n","i","t","e","d"," ","S","t","a","t","e","s"," ","o","f"," ","A","m","e","r","i","c","a">>

clean_usnews(csv) ==
    [i \in 1..Len(csv) |->
        [Name |-> csv[i].Name,
         country |-> usnews_country,
         usnews_rank |-> csv[i].Rank,
         name_normalized |-> normalize_name(csv[i].Name)]]

\* ------------------------------------------------------------------------
\* merge_datasets
\* ------------------------------------------------------------------------

\* Mutant of RowKey: the country is left out of the key.
RowKey_name_only(record) == <<record.name_normalized>>

\* The lookup key of a record (create_lookup_map and the two loops).
RowKey(record) == <<record.country, record.name_normalized>>

\* create_lookup_map: key -> index; a later record with the same key
\* overwrites the index of an earlier one.
create_lookup_map(records) ==
    [k \in {RowKey(records[i]) : i \in 1..Len(records)} |->
        CHOOSE i \in 1..Len(records) :
            /\ RowKey(records[i]) = k
            /\ \A j \in 1..Len(records) : RowKey(records[j]) = k => j <= i]

\* qs_df.to_dict("records"), with the columns pd.DataFrame(merged_list) gives
\* every row: a QS record has no the_rank / usnews_rank entry until one is set.
qs_record(r) ==
    [Name |-> r.Name, country |-> r.country, name_normalized |-> r.name_normalized,
     qs_rank |-> r.qs_rank, the_rank |-> Null, usnews_rank |-> Null,
     status |-> r.status, Latitude |-> r.Latitude, Longitude |-> r.Longitude]

\* Mutant of the_hit: the matched record loses its USNews rank.
the_hit_clears_usnews(record, the_row) ==
    [record EXCEPT !.the_rank = the_row.the_rank, !.usnews_rank = Null]

the_hit(record, the_row) == [record EXCEPT !.the_rank = the_row.the_rank]

\* Mutant of the_new_row: the rank is stored in the QS column as well.
the_new_row_rank_in_qs(the_row) ==
    [Name |-> the_row.Name, country |-> the_row.country,
     name_normalized |-> the_row.name_normalized,
     qs_rank |-> the_row.the_rank, the_rank |-> the_row.the_rank, usnews_rank |-> Null,
     status |-> Null, Latitude |-> Null, Longitude |-> Null]

the_new_row(the_row) ==
    [Name |-> the_row.Name, country |-> the_row.country,
     name_normalized |-> the_row.name_normalized,
     qs_rank |-> Null, the_rank |-> the_row.the_rank, usnews_rank |-> Null,
     status |-> Null, Latitude |-> Null, Longitude |-> Null]

\* Mutant of usnews_hit: the matched record also takes the incoming Name.
usnews_hit_takes_name(record, usnews_row) ==
    [record EXCEPT !.usnews_rank = usnews_row.usnews_rank, !.Name = usnews_row.Name]

usnews_hit(record, usnews_row) == [record EXCEPT !.usnews_rank = usnews_row.usnews_rank]

usnews_new_row(usnews_row) ==
    [Name |-> usnews_row.Name, country |-> usnews_row.country,
     name_normalized |-> usnews_row.name_normalized,
     qs_rank |-> Null, the_rank |-> Null, usnews_rank |-> usnews_row.usnews_rank,
     status |-> Null, Latitude |-> Null, Longitude |-> Null]

\* One round of the THE loop (lines 673-694) on a list, with the lookup map
\* built before the loop.
the_round(list, lookup_map, the_row) ==
    IF RowKey(the_row) \in DOMAIN lookup_map
    THEN [list EXCEPT ![lookup_map[RowKey(the_row)]] =
                          the_hit(list[lookup_map[RowKey(the_row)]], the_row)]
    ELSE Append(list, the_new_row(the_row))

\* The first n rounds of the THE loop.
RECURSIVE the_loop(_, _, _, _)
the_loop(list, lookup_map, the_rows, n) ==
    IF n = 0 THEN list
    ELSE the_round(the_loop(list, lookup_map, the_rows, n - 1), lookup_map, the_rows[n])

\* One round of the USNews loop (lines 708-729), likewise.
usnews_round(list, lookup_map, usnews_row) ==
    IF RowKey(usnews_row) \in DOMAIN lookup_map
    THEN [list EXCEPT ![lookup_map[RowKey(usnews_row)]] =
                          usnews_hit(list[lookup_map[RowKey(usnews_row)]], usnews_row)]
    ELSE Append(list, usnews_new_row(usnews_row))

\* The first n rounds of the USNews loop.
RECURSIVE usnews_loop(_, _, _, _)
usnews_loop(list, lookup_map, usnews_rows, n) ==
    IF n = 0 THEN list
    ELSE usnews_round(usnews_loop(list, lookup_map, usnews_rows, n - 1), lookup_map,
                      usnews_rows[n])

\* merged_list = qs_df.to_dict("records") (line 655), record by record.
RECURSIVE base_list_upto(_, _)
base_list_upto(qs_rows, n) ==
    IF n = 0 THEN <<>>
    ELSE Append(base_list_upto(qs_rows, n - 1), qs_record(qs_rows[n]))

base_list(qs_rows) == base_list_upto(qs_rows, Len(qs_rows))

\* The THE block (lines 666-699): the lookup map of the list as it stands,
\* then the loop.
the_block(list, the_rows) ==
    the_loop(list, create_lookup_map(list), the_rows, Len(the_rows))

\* The USNews block (lines 701-734), likewise.
usnews_block(list, usnews_rows) ==
    usnews_loop(list, create_lookup_map(list), usnews_rows, Len(usnews_rows))

\* merge_datasets as written: the THE block, then the USNews block.
the_before_usnews(qs_rows, the_rows, usnews_rows) ==
    usnews_block(the_block(base_list(qs_rows), the_rows), usnews_rows)

\* merge_datasets with the two blocks in the other order.
usnews_before_the(qs_rows, the_rows, usnews_rows) ==
    the_block(usnews_block(base_list(qs_rows), usnews_rows), the_rows)

InitMerge ==
    /\ \E nq \in 0..MaxRows, nt \in 0..MaxRows, nu \in 0..MaxRows :
          /\ nq + nt + nu <= MaxRows
          /\ qs_csv \in QsCsvTables(nq)
          /\ the_csv \in TheCsvTables(nt)
          /\ usnews_csv \in UsnewsCsvTables(nu)
    /\ qs_df = <<>>
    /\ the_df = <<>>
    /\ usnews_df = <<>>
    /\ merged_list = <<>>
    /\ lookup = <<>>
    /\ pos = 0
    /\ the_matched = 0
    /\ the_new = 0
    /\ usnews_matched = 0
    /\ usnews_new = 0

\* The variables of the merge before any file is read.
InitMergeIdle ==
    /\ qs_csv = <<>>
    /\ the_csv = <<>>
    /\ usnews_csv = <<>>
    /\ qs_df = <<>>
    /\ the_df = <<>>
    /\ usnews_df = <<>>
    /\ merged_list = <<>>
    /\ lookup = <<>>
    /\ pos = 0
    /\ the_matched = 0
    /\ the_new = 0
    /\ usnews_matched = 0
    /\ usnews_new = 0

\* The variables of is_same_university before any call.
IdleKeys ==
    /\ row_a = <<>>
    /\ row_b = <<>>
    /\ same = FALSE

\* The names of merge_uni.py when that script is not run.
IdleUnify ==
    /\ all_unis = <<>>
    /\ uni_idx = 0
    /\ unique_records = <<>>
    /\ seen_names = <<>>
    /\ merged_df = <<>>

\* No normalizer under application.
IdleNorm ==
    /\ raw = <<>>
    /\ other = <<>>
    /\ once = <<>>
    /\ other_once = <<>>
    /\ twice = <<>>

\* main() with three complete files, before it writes or returns anything.
IdleMain ==
    /\ columns = CompleteColumns
    /\ merged_file = Null
    /\ return_code = Null

\* The URL cache and find_matching_url before any call.
IdleUrl ==
    /\ university_urls = <<>>
    /\ csv_name = ""
    /\ csv_rank = <<>>
    /\ url = Null
    /\ raised = Null

\* QSScraper.run before any call: no table, no progress, no file.
IdleRun ==
    /\ df_input = <<>>
    /\ input_idx = 0
    /\ progress = <<>>
    /\ progress_file = <<>>
    /\ csv_output = <<>>
    /\ fetched = <<>>
    /\ runs = 0

\* The parallel scraper before any call.
IdleWorkers ==
    /\ n_chunks = 0
    /\ chunks = <<>>
    /\ out_rows = <<>>
    /\ worker_output = <<>>
    /\ worker_idx = <<>>
    /\ worker_pc = <<>>

IdleScrapers == IdleUrl /\ IdleRun /\ IdleWorkers

\* The locals of deduplicate_fuzzy before any call.
IdleDedup ==
    /\ df = <<>>
    /\ used_indices = {}
    /\ merged_groups = <<>>
    /\ dpos = 0
    /\ keep_rows = <<>>
    /\ merge_count = 0
    /\ merge_details = <<>>
    /\ result = <<>>

load_and_clean_qs ==
    /\ pc = "load_qs"
    /\ has_columns(columns.qs, QsColumns)
    /\ qs_df' = clean_qs(qs_csv)
    /\ pc' = "load_the"
    /\ UNCHANGED <<qs_csv, the_csv, usnews_csv, the_df, usnews_df, merged_list, lookup,
                   pos, the_matched, the_new, usnews_matched, usnews_new>>
    /\ UNCHANGED outsideMerge

load_and_clean_the ==
    /\ pc = "load_the"
    /\ has_columns(columns.the, TheColumns)
    /\ the_df' = clean_the(the_csv)
    /\ pc' = "load_usnews"
    /\ UNCHANGED <<qs_csv, the_csv, usnews_csv, qs_df, usnews_df, merged_list, lookup,
                   pos, the_matched, the_new, usnews_matched, usnews_new>>
    /\ UNCHANGED outsideMerge

load_and_clean_usnews ==
    /\ pc = "load_usnews"
    /\ has_columns(columns.usnews, UsnewsColumns)
    /\ usnews_df' = clean_usnews(usnews_csv)
    /\ pc' = "merge_start"
    /\ UNCHANGED <<qs_csv, the_csv, usnews_csv, qs_df, the_df, merged_list, lookup,
                   pos, the_matched, the_new, usnews_matched, usnews_new>>
    /\ UNCHANGED outsideMerge

\* merge_datasets up to the THE loop: the base list and qs_lookup.
merge_start ==
    /\ pc = "merge_start"
    /\ merged_list' = [i \in 1..Len(qs_df) |-> qs_record(qs_df[i])]
    /\ lookup' = create_lookup_map(merged_list')
    /\ the_matched' = 0
    /\ the_new' = 0
    /\ pos' = 1
    /\ pc' = "the_loop"
    /\ UNCHANGED <<qs_csv, the_csv, usnews_csv, qs_df, the_df, usnews_df,
                   usnews_matched, usnews_new>>
    /\ UNCHANGED outsideMerge

\* Mutant of the_row_step: a row that hits is appended as a new row as well.
the_row_step_hit_appends ==
    /\ pc = "the_loop"
    /\ pos <= Len(the_df)
    /\ LET the_row == the_df[pos]
           key == RowKey(the_row)
       IN  \/ /\ key \in DOMAIN lookup
              /\ merged_list' = Append([merged_list EXCEPT
                                           ![lookup[key]] = the_hit(merged_list[lookup[key]], the_row)],
                                       the_new_row(the_row))
              /\ the_matched' = the_matched + 1
              /\ UNCHANGED the_new
           \/ /\ key \notin DOMAIN lookup
              /\ merged_list' = Append(merged_list, the_new_row(the_row))
              /\ the_new' = the_new + 1
              /\ UNCHANGED the_matched
    /\ pos' = pos + 1
    /\ UNCHANGED <<pc, qs_csv, the_csv, usnews_csv, qs_df, the_df, usnews_df, lookup,
                   usnews_matched, usnews_new>>
    /\ UNCHANGED outsideMerge

\* One iteration of "for _, the_row in the_df.iterrows()".
the_row_step ==
    /\ pc = "the_loop"
    /\ pos <= Len(the_df)
    /\ LET the_row == the_df[pos]
           key == RowKey(the_row)
       IN  \/ /\ key \in DOMAIN lookup
              /\ merged_list' = [merged_list EXCEPT
                                    ![lookup[key]] = the_hit(merged_list[lookup[key]], the_row)]
              /\ the_matched' = the_matched + 1
              /\ UNCHANGED the_new
           \/ /\ key \notin DOMAIN lookup
              /\ merged_list' = Append(merged_list, the_new_row(the_row))
              /\ the_new' = the_new + 1
              /\ UNCHANGED the_matched
    /\ pos' = pos + 1
    /\ UNCHANGED <<pc, qs_csv, the_csv, usnews_csv, qs_df, the_df, usnews_df, lookup,
                   usnews_matched, usnews_new>>
    /\ UNCHANGED outsideMerge

\* End of the THE loop: merged_lookup is built from the list as it stands.
the_loop_end ==
    /\ pc = "the_loop"
    /\ pos > Len(the_df)
    /\ lookup' = create_lookup_map(merged_list)
    /\ usnews_matched' = 0
    /\ usnews_new' = 0
    /\ pos' = 1
    /\ pc' = "usnews_loop"
    /\ UNCHANGED <<qs_csv, the_csv, usnews_csv, qs_df, the_df, usnews_df, merged_list,
                   the_matched, the_new>>
    /\ UNCHANGED outsideMerge

\* One iteration of "for _, usnews_row in usnews_df.iterrows()".
usnews_row_step ==
    /\ pc = "usnews_loop"
    /\ pos <= Len(usnews_df)
    /\ LET usnews_row == usnews_df[pos]
           key == RowKey(usnews_row)
       IN  \/ /\ key \in DOMAIN lookup
              /\ merged_list' = [merged_list EXCEPT
                                    ![lookup[key]] = usnews_hit(merged_list[lookup[key]], usnews_row)]
              /\ usnews_matched' = usnews_matched + 1
              /\ UNCHANGED usnews_new
           \/ /\ key \notin DOMAIN lookup
              /\ merged_list' = Append(merged_list, usnews_new_row(usnews_row))
              /\ usnews_new' = usnews_new + 1
              /\ UNCHANGED usnews_matched
    /\ pos' = pos + 1
    /\ UNCHANGED <<pc, qs_csv, the_csv, usnews_csv, qs_df, the_df, usnews_df, lookup,
                   the_matched, the_new>>
    /\ UNCHANGED outsideMerge

\* End of the USNews loop: merge_datasets returns pd.DataFrame(merged_list).
merge_return ==
    /\ pc = "usnews_loop"
    /\ pos > Len(usnews_df)
    /\ pc' = "merge_done"
    /\ UNCHANGED mergeVars
    /\ UNCHANGED outsideMerge

Init ==
    /\ pc = "load_qs"
    /\ InitMerge
    /\ IdleKeys
    /\ IdleDedup
    /\ IdleUnify
    /\ IdleNorm
    /\ IdleMain
    /\ IdleScrapers

Next ==
    \/ load_and_clean_qs
    \/ load_and_clean_the
    \/ load_and_clean_usnews
    \/ merge_start
    \/ the_row_step
    \/ the_loop_end
    \/ usnews_row_step
    \/ merge_return

Spec == Init /\ [][Next]_vars

\* ------------------------------------------------------------------------
\* Two rows of the table under is_same_university
\* ------------------------------------------------------------------------

\* Most words in the base part of a name.
MaxWords == 1

\* Words of a base name: one that names an institution, one generic word.
BaseWords == { <<"T","e","c","h">>, <<"C","o","l","l","e","g","e">> }

RECURSIVE join_words(_)
join_words(ws) ==
    IF Len(ws) = 0 THEN <<>>
    ELSE IF Len(ws) = 1 THEN ws[1]
    ELSE ws[1] \o <<" ">> \o join_words(Tail(ws))

BaseNames == UNION { { join_words(ws) : ws \in [1..n -> BaseWords] } : n \in 1..MaxWords }

\* Bracket contents: an abbreviation, a generic word, a country code, a text
\* that starts with a country code, a two-letter abbreviation, and a text that
\* is a two-letter code, and one that is a three-letter country code, once
\* normalized.
Aliases ==
    { <<"M","I","T">>, <<"C","o","l","l","e","g","e">>, <<"U","S","A">>,
      <<"u","s","a","b">>, <<"U","C">>, <<"t","h","e"," ","u","k">>,
      <<"t","h","e"," ","U","S","A">> }

bracketed(base, alias) == base \o <<" ","(">> \o alias \o <<")">>

\* The Name cells: plain names, bracketed names (also with nothing before the
\* bracket), a name that is its own country-code suffix, a name of two
\* generic words alone and with a country-code suffix, an empty and a missing
\* name.
KeyNames ==
    BaseNames \cup Aliases
        \cup { bracketed(b, a) : b \in BaseNames \cup {<<>>}, a \in Aliases }
        \cup { <<"U","S","A"," ","(","U","S","A",")">>,
               <<"C","o","l","l","e","g","e"," ","S","c","h","o","o","l">>,
               <<"C","o","l","l","e","g","e"," ","S","c","h","o","o","l"," ","(","U","S","A",")">>,
               <<>>, NaN }

\* Country cells as normalize_country leaves them ("" for a missing country).
KeyCountries == { <<"J","a","p","a","n">>, <<"j","a","p","a","n">>, <<"P","e","r","u">>, <<>> }

InitKeys ==
    /\ \E na \in KeyNames, nb \in KeyNames, ca \in {<<"J","a","p","a","n">>, <<>>}, cb \in KeyCountries :
          /\ row_a = [Name |-> na, Country |-> ca, name_keys |-> {}]
          /\ row_b = [Name |-> nb, Country |-> cb, name_keys |-> {}]
    /\ same = FALSE

\* df["_name_keys"] = df["Name"].apply(build_name_keys)
keys_build ==
    /\ pc = "keys_init"
    /\ row_a' = [row_a EXCEPT !.name_keys = build_name_keys(row_a.Name)]
    /\ row_b' = [row_b EXCEPT !.name_keys = build_name_keys(row_b.Name)]
    /\ pc' = "keys_built"
    /\ UNCHANGED same
    /\ UNCHANGED outsideKeys

\* is_same_university(row_i, row_j)
keys_compare ==
    /\ pc = "keys_built"
    /\ same' = is_same_university(row_a, row_b)
    /\ pc' = "keys_compared"
    /\ UNCHANGED <<row_a, row_b>>
    /\ UNCHANGED outsideKeys

InitKeysSpec ==
    /\ pc = "keys_init"
    /\ InitKeys
    /\ InitMergeIdle
    /\ IdleDedup
    /\ IdleUnify
    /\ IdleNorm
    /\ IdleMain
    /\ IdleScrapers

NextKeys ==
    \/ keys_build
    \/ keys_compare

SpecKeys == InitKeysSpec /\ [][NextKeys]_vars

\* ------------------------------------------------------------------------
\* A name with an abbreviation in brackets and a name that is an expansion
\* ------------------------------------------------------------------------

\* What stands before the bracket: a name, a generic word, nothing.
AbbrevBases == BaseWords \cup { <<>> }

\* The values of the abbreviation table.
Expansions == { abbreviations(alias_norm) : alias_norm \in abbreviation_keys }

InitAbbrev ==
    /\ \E base \in AbbrevBases, alias \in abbreviation_keys, nb \in Expansions,
          cb \in {<<"J","a","p","a","n">>, <<"P","e","r","u">>} :
          /\ row_a = [Name |-> bracketed(base, alias), Country |-> <<"J","a","p","a","n">>,
                      name_keys |-> {}]
          /\ row_b = [Name |-> nb, Country |-> cb, name_keys |-> {}]
    /\ same = FALSE

InitAbbrevSpec ==
    /\ pc = "keys_init"
    /\ InitAbbrev
    /\ InitMergeIdle
    /\ IdleDedup
    /\ IdleUnify
    /\ IdleNorm
    /\ IdleMain
    /\ IdleScrapers

SpecAbbrev == InitAbbrevSpec /\ [][NextKeys]_vars

\* ------------------------------------------------------------------------
\* deduplicate_fuzzy
\* ------------------------------------------------------------------------

\* representative.index: the columns of the table, in order.
Columns ==
    <<"Name", "Country", "QS_Rank", "THE_Rank", "USNews_Rank",
      "natureOfRunning", "Latitude", "Longitude", "name_keys">>

\* The columns the fill loop visits: not "_name_keys", not Name, not Country.
fill_columns ==
    SelectSeq(Columns, LAMBDA col : col \notin {"name_keys", "Name", "Country"})

\* row.notna().sum(): the cells that are not null; a key set is never null.
RECURSIVE notna_sum(_, _)
notna_sum(row, k) ==
    IF k > Len(Columns) THEN 0
    ELSE (IF Columns[k] = "name_keys" \/ ~isna(row[Columns[k]]) THEN 1 ELSE 0)
             + notna_sum(row, k + 1)

score(row) == notna_sum(row, 1)

\* Mutant of sort_insert: a record goes before the records of its own score.
sort_insert_before_ties(sorted, idx, rows) ==
    LET before == SelectSeq(sorted, LAMBDA x : score(rows[x]) > score(rows[idx]))
        after == SelectSeq(sorted, LAMBDA x : score(rows[x]) <= score(rows[idx]))
    IN  before \o <<idx>> \o after

\* One insertion of the stable sort: a record goes after every record whose
\* score is at least its own.
sort_insert(sorted, idx, rows) ==
    LET before == SelectSeq(sorted, LAMBDA x : score(rows[x]) >= score(rows[idx]))
        after == SelectSeq(sorted, LAMBDA x : score(rows[x]) < score(rows[idx]))
    IN  before \o <<idx>> \o after

\* group_with_scores.sort(key=score, reverse=True): descending score, records
\* of one score in the order of the group.
RECURSIVE group_with_scores(_, _, _)
group_with_scores(group, k, rows) ==
    IF k = 0 THEN <<>>
    ELSE sort_insert(group_with_scores(group, k - 1, rows), group[k], rows)

\* Mutant of same_after: a record that is already used is taken again.
RECURSIVE same_after_also_used(_, _, _, _)
same_after_also_used(rows, i, j, used) ==
    IF j > Len(rows) THEN <<>>
    ELSE IF is_same_university(rows[i], rows[j])
         THEN <<j>> \o same_after_also_used(rows, i, j + 1, used)
         ELSE same_after_also_used(rows, i, j + 1, used)

\* The inner loop of lines 455-463: the later records, not yet used, that are
\* the same university as the seed.
RECURSIVE same_after(_, _, _, _)
same_after(rows, i, j, used) ==
    IF j > Len(rows) THEN <<>>
    ELSE IF j \notin used /\ is_same_university(rows[i], rows[j])
         THEN <<j>> \o same_after(rows, i, j + 1, used)
         ELSE same_after(rows, i, j + 1, used)

\* Mutant of needs_fill: every cell of the representative is refilled.
needs_fill_always(value) == TRUE

\* pd.isna(representative[col]) or representative[col] == ""
needs_fill(value) == isna(value) \/ value = <<>>

\* pd.notna(alt_val) and str(alt_val).strip() != ""
can_fill(value) == ~isna(value) /\ strip(value) # <<>>

\* Lines 510-515: the first of group_with_scores[1:] whose value can fill the
\* column, 0 when there is none.
RECURSIVE first_alt(_, _, _, _)
first_alt(sorted, k, rows, col) ==
    IF k > Len(sorted) THEN 0
    ELSE IF can_fill(rows[sorted[k]][col]) THEN sorted[k]
    ELSE first_alt(sorted, k + 1, rows, col)

\* The source of the value of a column of the merged record: the record it is
\* filled from, 0 when the representative's value stays.
fill_source(sorted, rows, col) ==
    IF needs_fill(rows[sorted[1]][col]) THEN first_alt(sorted, 2, rows, col) ELSE 0

\* Lines 502-515: the representative with its null and empty cells filled.
fill_representative(sorted, rows) ==
    [col \in DOMAIN rows[sorted[1]] |->
        IF col \in {"name_keys", "Name", "Country"} THEN rows[sorted[1]][col]
        ELSE IF fill_source(sorted, rows, col) = 0 THEN rows[sorted[1]][col]
        ELSE rows[fill_source(sorted, rows, col)][col]]

\* filled_fields: (column, record) for every column that was filled.
filled_fields(sorted, rows) ==
    LET filled == SelectSeq(fill_columns, LAMBDA col : fill_source(sorted, rows, col) # 0)
    IN  [n \in 1..Len(filled) |-> <<filled[n], fill_source(sorted, rows, filled[n])>>]

\* The rows of the table handed to deduplicate_fuzzy, at most this many.
MaxDedupRows == 3

\* Name and Country of a row: "Yale (MIT)" is the same university as "Mit"
\* and as "Yale" of its country, which are not the same as each other; a row
\* without a name and with the country "" that normalize_country gives a
\* missing country.
Identities ==
    { <<<<"M","i","t">>, <<"U","n","i","t","e","d"," ","S","t","a","t","e","s"," ","o","f"," ","A","m","e","r","i","c","a">>>>,
      <<<<"Y","a","l","e"," ","(","M","I","T",")">>, <<"U","n","i","t","e","d"," ","S","t","a","t","e","s"," ","o","f"," ","A","m","e","r","i","c","a">>>>,
      <<<<"Y","a","l","e">>, <<"U","n","i","t","e","d"," ","S","t","a","t","e","s"," ","o","f"," ","A","m","e","r","i","c","a">>>>,
      <<<<"M","i","t">>, <<"P","e","r","u">>>>,
      <<NaN, <<>>>> }

\* Which cells of a row hold a value: a QS row with status and coordinates, a
\* THE row, a THE row that a USNews row hit, a THE row whose rank cell is
\* blank.
Profiles == {"qs_full", "the", "the_usnews", "the_blank"}

Digit(i) == CASE i = 1 -> "1" [] i = 2 -> "2" [] i = 3 -> "3" [] i = 4 -> "4" [] OTHER -> "5"

\* Row i of the table as finalize_output leaves it: every value names its
\* row, and the QS ranks grow with the row.
dedup_row(identity, profile, i) ==
    [Name |-> identity[1],
     Country |-> identity[2],
     QS_Rank |-> IF profile = "qs_full" THEN <<"q", Digit(i)>> ELSE NaN,
     THE_Rank |-> CASE profile \in {"the", "the_usnews"} -> <<"t", Digit(i)>>
                    [] profile = "the_blank" -> <<" ">>
                    [] OTHER -> NaN,
     USNews_Rank |-> IF profile = "the_usnews" THEN <<"u", Digit(i)>> ELSE NaN,
     natureOfRunning |-> IF profile = "qs_full" THEN <<"P","u","b","l","i","c">> ELSE NaN,
     Latitude |-> IF profile = "qs_full" THEN <<"a", Digit(i)>> ELSE NaN,
     Longitude |-> IF profile = "qs_full" THEN <<"o", Digit(i)>> ELSE NaN]

\* Tables that merge_datasets and finalize_output can produce: the rows with
\* a QS rank come first (sort_values by QS_Rank, nulls last); a USNews rank
\* is on rows of the United States only (load_and_clean_usnews); rows of one
\* (country, normalized name) come from one source table, and of them only
\* the last can have been hit by a USNews row (create_lookup_map).
DedupTables(n) ==
    { [i \in 1..n |-> dedup_row(ids[i], ps[i], i)] :
        <<ids, ps>> \in
          { t \in [1..n -> Identities] \X [1..n -> Profiles] :
              /\ \A i \in 1..n :
                    t[2][i] = "the_usnews" => t[1][i][2] = <<"U","n","i","t","e","d"," ","S","t","a","t","e","s"," ","o","f"," ","A","m","e","r","i","c","a">>
              /\ \A i \in 1..n, j \in 1..n :
                    (i < j /\ t[2][j] = "qs_full") => t[2][i] = "qs_full"
              /\ \A i \in 1..n, j \in 1..n :
                    (i < j /\ t[1][i] = t[1][j])
                    => /\ (t[2][i] = "qs_full") <=> (t[2][j] = "qs_full")
                       /\ t[2][i] # "the_usnews" } }

InitDedup ==
    /\ \E n \in 0..MaxDedupRows : df \in DedupTables(n)
    /\ used_indices = {}
    /\ merged_groups = <<>>
    /\ dpos = 0
    /\ keep_rows = <<>>
    /\ merge_count = 0
    /\ merge_details = <<>>
    /\ result = <<>>

\* Line 439: df["_name_keys"] = df["Name"].apply(build_name_keys)
dedup_build_keys ==
    /\ pc = "dedup_init"
    /\ df' = [i \in 1..Len(df) |->
                [col \in DOMAIN df[i] \cup {"name_keys"} |->
                    IF col = "name_keys" THEN build_name_keys(df[i].Name)
                    ELSE df[i][col]]]
    /\ used_indices' = {}
    /\ merged_groups' = <<>>
    /\ merge_details' = <<>>
    /\ dpos' = 1
    /\ pc' = "dedup_group"
    /\ UNCHANGED <<keep_rows, merge_count, result>>
    /\ UNCHANGED outsideDedup

\* Lines 446-465: one round of the outer loop, for the record at dpos.
dedup_group_step ==
    /\ pc = "dedup_group"
    /\ dpos <= Len(df)
    /\ \/ /\ dpos \in used_indices
          /\ UNCHANGED <<used_indices, merged_groups>>
       \/ /\ dpos \notin used_indices
          /\ LET group == <<dpos>> \o same_after(df, dpos, dpos + 1, used_indices)
             IN  /\ used_indices' = used_indices \cup {group[n] : n \in 1..Len(group)}
                 /\ merged_groups' = Append(merged_groups, group)
    /\ dpos' = dpos + 1
    /\ UNCHANGED <<pc, df, keep_rows, merge_count, merge_details, result>>
    /\ UNCHANGED outsideDedup

\* The outer loop is over: lines 468-469.
dedup_group_end ==
    /\ pc = "dedup_group"
    /\ dpos > Len(df)
    /\ keep_rows' = <<>>
    /\ merge_count' = 0
    /\ dpos' = 1
    /\ pc' = "dedup_merge"
    /\ UNCHANGED <<df, used_indices, merged_groups, merge_details, result>>
    /\ UNCHANGED outsideDedup

\* Lines 471-520: one round of the second loop, for the group at dpos.  An
\* entry of merge_details holds what the three log lines of a merged group
\* say: the group, the record kept, the columns filled and from where.
dedup_merge_step ==
    /\ pc = "dedup_merge"
    /\ dpos <= Len(merged_groups)
    /\ LET group_indices == merged_groups[dpos] IN
       \/ /\ Len(group_indices) = 1
          /\ keep_rows' = Append(keep_rows, df[group_indices[1]])
          /\ UNCHANGED <<merge_count, merge_details>>
       \/ /\ Len(group_indices) # 1
          /\ LET sorted == group_with_scores(group_indices, Len(group_indices), df)
             IN  /\ merge_count' = merge_count + 1
                 /\ merge_details' =
                        Append(merge_details,
                               [group |-> group_indices,
                                keep |-> sorted[1],
                                filled |-> filled_fields(sorted, df)])
                 /\ keep_rows' = Append(keep_rows, fill_representative(sorted, df))
    /\ dpos' = dpos + 1
    /\ UNCHANGED <<pc, df, used_indices, merged_groups, result>>
    /\ UNCHANGED outsideDedup

\* Lines 522-526: the kept rows without the "_name_keys" column.
dedup_return ==
    /\ pc = "dedup_merge"
    /\ dpos > Len(merged_groups)
    /\ result' = [k \in 1..Len(keep_rows) |->
                    [col \in DOMAIN keep_rows[k] \ {"name_keys"} |-> keep_rows[k][col]]]
    /\ pc' = "dedup_done"
    /\ UNCHANGED <<df, used_indices, merged_groups, dpos, keep_rows, merge_count,
                   merge_details>>
    /\ UNCHANGED outsideDedup

InitDedupSpec ==
    /\ pc = "dedup_init"
    /\ InitDedup
    /\ InitMergeIdle
    /\ IdleKeys
    /\ IdleUnify
    /\ IdleNorm
    /\ IdleMain
    /\ IdleScrapers

NextDedup ==
    \/ dedup_build_keys
    \/ dedup_group_step
    \/ dedup_group_end
    \/ dedup_merge_step
    \/ dedup_return

SpecDedup == InitDedupSpec /\ [][NextDedup]_vars

\* ------------------------------------------------------------------------
\* merge_uni.py: the name unifier
\* ------------------------------------------------------------------------

\* A character outside ASCII is written by its code point: "U+00E9" is the
\* letter e with an acute accent, "U+0301" the combining acute accent,
\* "U+4E2D" a CJK ideograph.
NonAscii == {"U+00E9", "U+0301", "U+4E2D"}

\* unicodedata.normalize('NFKD', name): an accented letter becomes the letter
\* and the combining accent.
RECURSIVE nfkd(_)
nfkd(s) ==
    IF s = <<>> THEN <<>>
    ELSE (IF Head(s) = "U+00E9" THEN <<"e", "U+0301">> ELSE <<Head(s)>>)
             \o nfkd(Tail(s))

\* .encode('ASCII', 'ignore').decode('utf-8')
ascii_ignore(s) == SelectSeq(s, LAMBDA c : c \notin NonAscii)

\* re.sub(r'[^a-z0-9\s]', '', name)
keep_alnum_space(s) ==
    SelectSeq(s, LAMBDA c :
        c \in {"a","b","c","d","e","f","g","h","i","j","k","l","m","n","o","p","q",
               "r","s","t","u","v","w","x","y","z",
               "0","1","2","3","4","5","6","7","8","9"} \/ IsSpace(c))

\* normalize_name of merge_uni.py
uni_normalize_name(name) ==
    strip(collapse_spaces(keep_alnum_space(ascii_ignore(nfkd(strip(lower(name)))))))

\* The length of a longest common subsequence of a[i..] and b[j..].
RECURSIVE lcs_from(_, _, _, _)
lcs_from(a, b, i, j) ==
    IF i > Len(a) \/ j > Len(b) THEN 0
    ELSE IF a[i] = b[j] THEN 1 + lcs_from(a, b, i + 1, j + 1)
    ELSE LET x == lcs_from(a, b, i + 1, j)
             y == lcs_from(a, b, i, j + 1)
         IN  IF x >= y THEN x ELSE y

similarity_threshold == 90

\* Mutant of ratio_reaches: only equal names are similar.
ratio_reaches_equal_only(a, b, threshold) == a = b

\* fuzz.ratio(a, b) >= threshold.  fuzz.ratio is the normalized Indel
\* similarity, 100 * 2 * lcs / (len(a) + len(b)), and 100 for two empty
\* strings.
ratio_reaches(a, b, threshold) ==
    IF Len(a) + Len(b) = 0 THEN 100 >= threshold
    ELSE 200 * lcs_from(a, b, 1, 1) >= threshold * (Len(a) + Len(b))

\* Lines 55-59: the first name of seen_names, from place k on, that the
\* normalized name is similar to; None when there is none.
RECURSIVE first_match(_, _, _)
first_match(name_normalized, seen, k) ==
    IF k > Len(seen) THEN Null
    ELSE IF ratio_reaches(name_normalized, seen[k], similarity_threshold) THEN seen[k]
    ELSE first_match(name_normalized, seen, k + 1)

\* Lines 62-63: the place of the first record with the matched name, 0 when
\* no record has it.
RECURSIVE record_with_name(_, _, _)
record_with_name(records, matched_name, k) ==
    IF k > Len(records) THEN 0
    ELSE IF records[k].name_normalized = matched_name THEN k
    ELSE record_with_name(records, matched_name, k + 1)

\* "if matched_name:": None and the empty string are false.
truthy(matched_name) == matched_name # Null /\ matched_name # <<>>

\* Mutant of merged_record: the record takes the name of the row as well.
merged_record_takes_name(record, row) ==
    [record EXCEPT
        !.name = row.name,
        !.sources = @ \cup {row.source},
        !.country =
            IF row.country # <<"U","n","k","n","o","w","n">> /\ @ = <<"U","n","k","n","o","w","n">>
            THEN row.country ELSE @]

\* Lines 64-68: the record a row was matched to gets the row's source, and
\* the row's country when it has none of its own.
merged_record(record, row) ==
    [record EXCEPT
        !.sources = @ \cup {row.source},
        !.country =
            IF row.country # <<"U","n","k","n","o","w","n">> /\ @ = <<"U","n","k","n","o","w","n">>
            THEN row.country ELSE @]

\* Lines 72-77: the record of a row that was matched to none.
new_record(row) ==
    [name |-> row.name,
     name_normalized |-> row.name_normalized,
     country |-> row.country,
     sources |-> {row.source}]

\* The characters of the names below, in the order of their code points.
code_points ==
    <<" ", "(", ")", ",", "-", ".", "0", "1", "2", "3", "4", "5", "6", "7",
      "8", "9", "A", "B", "C", "D", "E", "F", "G", "H", "I", "J", "K", "L",
      "M", "N", "O", "P", "Q", "R", "S", "T", "U", "V", "W", "X", "Y", "Z",
      "a", "b", "c", "d", "e", "f", "g", "h", "i", "j", "k", "l", "m", "n",
      "o", "p", "q", "r", "s", "t", "u", "v", "w", "x", "y", "z", "U+00E9",
      "U+0301", "U+4E2D">>

RECURSIVE index_of(_, _, _)
index_of(s, c, k) ==
    IF k > Len(s) THEN 0
    ELSE IF s[k] = c THEN k
    ELSE index_of(s, c, k + 1)

ord(c) == index_of(code_points, c, 1)

\* a < b for two str, as sort_values compares them.
RECURSIVE str_less(_, _)
str_less(a, b) ==
    IF b = <<>> THEN FALSE
    ELSE IF a = <<>> THEN TRUE
    ELSE IF Head(a) = Head(b) THEN str_less(Tail(a), Tail(b))
    ELSE ord(Head(a)) < ord(Head(b))

\* A record comes before another in sort_values(by=["country", "name"]).
record_less(r, t) ==
    \/ str_less(r.country, t.country)
    \/ r.country = t.country /\ str_less(r.name, t.name)

\* The stable sort of sort_values, by insertion from the left.
RECURSIVE sort_values(_, _)
sort_values(records, k) ==
    IF k = 0 THEN <<>>
    ELSE LET done == sort_values(records, k - 1)
             r == records[k]
         IN  SelectSeq(done, LAMBDA t : ~record_less(r, t)) \o <<r>>
                 \o SelectSeq(done, LAMBDA t : record_less(r, t))

\* The rows of all_unis, at most this many.
MaxUniRows == 3

\* The labels of the files that are read (line 16).
files == {"uniRank-World"}

\* The name cells: three names of which the second is similar to the first
\* and to the third and the first is not similar to the third, the first one
\* again with an accent, a capital and a full stop, and two names without any
\* ASCII letter or digit.
UniNames ==
    { <<"Y","a","l","e"," ","U">>, <<"Y","a","l","e"," ","U","n">>, <<"Y","a","l","e"," ","U","n","i">>,
      <<"Y","A","L","U+00E9"," ","U",".">>,
      <<"U+4E2D">>, <<"-">> }

\* The country cells; "Unknown" is what a file without the column gets.
UniCountries == { <<"U","n","k","n","o","w","n">>, <<"U","S">>, <<"U","K">> }

UniTables(n) ==
    [1..n -> [name : UniNames, country : UniCountries, source : files]]

InitUnify ==
    /\ \E n \in 0..MaxUniRows : all_unis \in UniTables(n)
    /\ uni_idx = 0
    /\ unique_records = <<>>
    /\ seen_names = <<>>
    /\ merged_df = <<>>

\* Lines 34-47: the normalized names, the empty lists.
unify_load ==
    /\ pc = "unify_load"
    /\ all_unis' = [i \in 1..Len(all_unis) |->
                      [name |-> all_unis[i].name,
                       country |-> all_unis[i].country,
                       name_normalized |-> uni_normalize_name(all_unis[i].name),
                       source |-> all_unis[i].source]]
    /\ unique_records' = <<>>
    /\ seen_names' = <<>>
    /\ uni_idx' = 1
    /\ pc' = "unify_loop"
    /\ UNCHANGED merged_df
    /\ UNCHANGED outsideUnify

\* Lines 49-77: one round of the loop, for the row at uni_idx.
unify_row_step ==
    /\ pc = "unify_loop"
    /\ uni_idx <= Len(all_unis)
    /\ LET row == all_unis[uni_idx]
           matched_name == first_match(row.name_normalized, seen_names, 1)
           k == record_with_name(unique_records, matched_name, 1)
       IN  \/ /\ truthy(matched_name)
              /\ unique_records' =
                    IF k = 0 THEN unique_records
                    ELSE [unique_records EXCEPT ![k] = merged_record(@, row)]
              /\ UNCHANGED seen_names
           \/ /\ ~truthy(matched_name)
              /\ seen_names' = Append(seen_names, row.name_normalized)
              /\ unique_records' = Append(unique_records, new_record(row))
    /\ uni_idx' = uni_idx + 1
    /\ UNCHANGED <<pc, all_unis, merged_df>>
    /\ UNCHANGED outsideUnify

\* Lines 82-92: the table that is written, sorted by country and name; the
\* sources cell is the set of the labels, which ", ".join(sorted(...)) writes
\* in one way only.
unify_save ==
    /\ pc = "unify_loop"
    /\ uni_idx > Len(all_unis)
    /\ LET final_records ==
              [k \in 1..Len(unique_records) |->
                  [name |-> unique_records[k].name,
                   country |-> unique_records[k].country,
                   sources |-> unique_records[k].sources]]
       IN  merged_df' = sort_values(final_records, Len(final_records))
    /\ pc' = "unify_done"
    /\ UNCHANGED <<all_unis, uni_idx, unique_records, seen_names>>
    /\ UNCHANGED outsideUnify

InitUnifySpec ==
    /\ pc = "unify_load"
    /\ InitUnify
    /\ InitMergeIdle
    /\ IdleKeys
    /\ IdleDedup
    /\ IdleNorm
    /\ IdleMain
    /\ IdleScrapers

NextUnify ==
    \/ unify_load
    \/ unify_row_step
    \/ unify_save

SpecUnify == InitUnifySpec /\ [][NextUnify]_vars

\* ------------------------------------------------------------------------
\* The normalizers applied to single cells
\* ------------------------------------------------------------------------

\* The keys of country_map.
country_aliases ==
    { <<"U","n","i","t","e","d"," ","S","t","a","t","e","s">>,
      <<"U","S","A">>,
      <<"U","S">>,
      <<"U","K">>,
      <<"S","o","u","t","h"," ","K","o","r","e","a">>,
      <<"N","o","r","t","h"," ","K","o","r","e","a">>,
      <<"N","e","t","h","e","r","l","a","n","d","s">>,
      <<"H","o","l","l","a","n","d">>,
      <<"M","a","c","a","o">> }

\* Most pieces of a raw name.
MaxPieces == 3

\* Pieces of a raw name: "the" with its space in two spellings, a word in
\* two spellings, a comma and a space.
NamePieces ==
    { <<"T","h","e"," ">>,
      <<"t","h","e"," ">>,
      <<"A","b">>,
      <<"a","b">>,
      <<",">>,
      <<" ">> }

RECURSIVE concat(_)
concat(ps) == IF Len(ps) = 0 THEN <<>> ELSE ps[1] \o concat(Tail(ps))

\* Name cells: a missing name, the empty name and the names of up to
\* MaxPieces pieces.
NormNames ==
    {NaN} \cup UNION { { concat(ps) : ps \in [1..n -> NamePieces] } : n \in 0..MaxPieces }

\* The words of a text, in order.
RECURSIVE words(_)
words(s) ==
    LET t == lstrip(s) IN
    IF t = <<>> THEN <<>>
    ELSE LET sp == find_from(t, " ", 1)
             tb == find_from(t, "\t", 1)
             n == IF sp = 0 /\ tb = 0 THEN Len(t)
                  ELSE IF sp = 0 THEN tb - 1
                  ELSE IF tb = 0 THEN sp - 1
                  ELSE IF sp < tb THEN sp - 1 ELSE tb - 1
         IN  <<SubSeq(t, 1, n)>> \o words(SubSeq(t, n + 1, Len(t)))

\* Two texts that differ only in letter case.
DifferInCase(a, b) ==
    Len(a) = Len(b) /\ \A i \in 1..Len(a) : ToLower(a[i]) = ToLower(b[i])

\* The words of every name cell.
NameWords == [name \in NormNames |-> words(name)]

\* Two name cells that differ only in leading, trailing or repeated
\* whitespace.
DifferInWhitespace(a, b) == NameWords[a] = NameWords[b]

\* Two texts that differ only in commas where the other has spaces.
DifferInCommas(a, b) ==
    Len(a) = Len(b) /\ \A i \in 1..Len(a) : a[i] = b[i] \/ {a[i], b[i]} = {",", " "}

\* The first text is the second after one leading "the " token.
HasLeadingThe(a, b) == a = <<"t","h","e"," ">> \o b \/ a = <<"T","h","e"," ">> \o b

\* The other spellings of a raw name.
Variants(name) ==
    { v \in NormNames :
        \/ DifferInCase(name, v)
        \/ DifferInWhitespace(name, v)
        \/ DifferInCommas(name, v)
        \/ HasLeadingThe(name, v)
        \/ HasLeadingThe(v, name) }

\* Region / Country cells: the aliases of country_map, alone and padded, the
\* canonical names, names the map does not know, blank and missing cells.
NormCountries ==
    country_aliases \cup {NaN} \cup
    { <<" ","U","S","A"," ">>,
      <<"H","o","l","l","a","n","d"," ">>,
      <<"P","e","r","u">>,
      <<" ","P","e","r","u"," ">>,
      <<"u","s","a">>,
      <<>>,
      <<" ">>,
      <<"U","n","i","t","e","d"," ","S","t","a","t","e","s"," ","o","f"," ","A","m","e","r","i","c","a">>,
      <<"U","n","i","t","e","d"," ","K","i","n","g","d","o","m">>,
      <<"R","e","p","u","b","l","i","c"," ","o","f"," ","K","o","r","e","a">>,
      <<"D","e","m","o","c","r","a","t","i","c"," ","P","e","o","p","l","e","'","s"," ","R","e","p","u","b","l","i","c"," ","o","f"," ","K","o","r","e","a">>,
      <<"M","a","c","a","u">>,
      <<"\t","U","K">> }

\* Status cells.
NormStatuses ==
    { NaN,
      <<"P","r","i","v","a","t","e">>,
      <<" ","P","R","I","V","A","T","E"," ","n","o","t"," ","f","o","r"," ","p","r","o","f","i","t"," ">>,
      <<"P","u","b","l","i","c">>,
      <<"S","t","a","t","e">>,
      <<"P","r","i","v","a","t","e"," ","(","s","t","a","t","e","-","r","e","l","a","t","e","d",")">>,
      <<"P","u","b","l","i","c","/","I","n","d","e","p","e","n","d","e","n","t">>,
      <<"P","r","o","p","r","i","e","t","a","r","y">>,
      <<"F","e","d","e","r","a","l"," ","G","o","v","e","r","n","m","e","n","t">>,
      <<"p","u","b","l","i","c">>,
      <<"o","t","h","e","r">>,
      <<>>,
      <<" ">>,
      <<"N","o","t"," ","F","o","r"," ","P","r","o","f","i","t">>,
      <<"E","s","t","a","t","e">> }

InitNorm ==
    /\ \/ /\ pc = "name"
          /\ raw \in NormNames
          /\ other \in Variants(raw)
       \/ /\ pc = "country"
          /\ raw \in NormCountries
          /\ other = raw
       \/ /\ pc = "status"
          /\ raw \in NormStatuses
          /\ other = raw
    /\ once = <<>>
    /\ other_once = <<>>
    /\ twice = <<>>

\* df["Name"].apply(normalize_name) on the two cells.
apply_normalize_name ==
    /\ pc = "name"
    /\ once' = normalize_name(raw)
    /\ other_once' = normalize_name(other)
    /\ pc' = "name_once"
    /\ UNCHANGED <<raw, other, twice>>
    /\ UNCHANGED outsideNorm

\* normalize_name on its own result.
apply_normalize_name_again ==
    /\ pc = "name_once"
    /\ twice' = normalize_name(once)
    /\ pc' = "name_twice"
    /\ UNCHANGED <<raw, other, once, other_once>>
    /\ UNCHANGED outsideNorm

\* df["Region"].apply(normalize_country) on the cell.
apply_normalize_country ==
    /\ pc = "country"
    /\ once' = normalize_country(raw)
    /\ pc' = "country_once"
    /\ UNCHANGED <<raw, other, other_once, twice>>
    /\ UNCHANGED outsideNorm

\* normalize_country on its own result.
apply_normalize_country_again ==
    /\ pc = "country_once"
    /\ twice' = normalize_country(once)
    /\ pc' = "country_twice"
    /\ UNCHANGED <<raw, other, once, other_once>>
    /\ UNCHANGED outsideNorm

\* df["Status"].apply(normalize_nature_of_running) on the cell.
apply_normalize_nature_of_running ==
    /\ pc = "status"
    /\ once' = normalize_nature_of_running(raw)
    /\ pc' = "status_once"
    /\ UNCHANGED <<raw, other, other_once, twice>>
    /\ UNCHANGED outsideNorm

InitNormSpec ==
    /\ InitNorm
    /\ InitMergeIdle
    /\ IdleKeys
    /\ IdleDedup
    /\ IdleUnify
    /\ IdleMain
    /\ IdleScrapers

NextNorm ==
    \/ apply_normalize_name
    \/ apply_normalize_name_again
    \/ apply_normalize_country
    \/ apply_normalize_country_again
    \/ apply_normalize_nature_of_running

SpecNorm == InitNormSpec /\ [][NextNorm]_vars

\* ------------------------------------------------------------------------
\* The normalizers and the key builder applied to values that are no str
\* ------------------------------------------------------------------------

\* Largest magnitude of an integer cell.
MaxNumber == 12

DigitChars == <<"0", "1", "2", "3", "4", "5", "6", "7", "8", "9">>

\* str(n) of an int.
RECURSIVE str_int(_)
str_int(n) ==
    IF n < 0 THEN <<"-">> \o str_int(0 - n)
    ELSE IF n < 10 THEN <<DigitChars[n + 1]>>
    ELSE str_int(n \div 10) \o <<DigitChars[(n % 10) + 1]>>

\* Cells that hold no str: a missing cell (float nan), None, the integers of
\* a column pandas read as numbers, some floats and the two booleans.
NonStrValues ==
    {NaN, None}
        \cup { <<"int">> \o str_int(n) : n \in (0 - MaxNumber)..MaxNumber }
        \cup { <<"float","0",".","0">>, <<"float","-","0",".","0">>, <<"float","1",".","5">> }
        \cup { <<"bool","T","r","u","e">>, <<"bool","F","a","l","s","e">> }

InitValues ==
    /\ pc \in {"call_name", "call_country", "call_status", "call_keys"}
    /\ raw \in NonStrValues
    /\ other = <<>>
    /\ once = <<>>
    /\ other_once = <<>>
    /\ twice = <<>>

\* normalize_name(raw)
call_normalize_name ==
    /\ pc = "call_name"
    /\ once' = normalize_name(raw)
    /\ pc' = "name_returned"
    /\ UNCHANGED <<raw, other, other_once, twice>>
    /\ UNCHANGED outsideNorm

\* normalize_country(raw)
call_normalize_country ==
    /\ pc = "call_country"
    /\ once' = normalize_country(raw)
    /\ pc' = "country_returned"
    /\ UNCHANGED <<raw, other, other_once, twice>>
    /\ UNCHANGED outsideNorm

\* normalize_nature_of_running(raw)
call_normalize_nature_of_running ==
    /\ pc = "call_status"
    /\ once' = normalize_nature_of_running(raw)
    /\ pc' = "status_returned"
    /\ UNCHANGED <<raw, other, other_once, twice>>
    /\ UNCHANGED outsideNorm

\* build_name_keys(raw)
call_build_name_keys ==
    /\ pc = "call_keys"
    /\ once' = build_name_keys(raw)
    /\ pc' = "keys_returned"
    /\ UNCHANGED <<raw, other, other_once, twice>>
    /\ UNCHANGED outsideNorm

InitValuesSpec ==
    /\ InitValues
    /\ InitMergeIdle
    /\ IdleKeys
    /\ IdleDedup
    /\ IdleUnify
    /\ IdleMain
    /\ IdleScrapers

NextValues ==
    \/ call_normalize_name
    \/ call_normalize_country
    \/ call_normalize_nature_of_running
    \/ call_build_name_keys

SpecValues == InitValuesSpec /\ [][NextValues]_vars

\* ------------------------------------------------------------------------
\* main
\* ------------------------------------------------------------------------

\* Most rows in the three input files together; each file has a row.
MaxMainRows == 3

\* The columns of the three files: complete, or one file lacks one of the
\* columns its loader reads.  The cells of a column that a file lacks are
\* never read.
ColumnChoices ==
    {CompleteColumns}
        \cup { [CompleteColumns EXCEPT !.qs = QsColumns \ {c}] : c \in QsColumns }
        \cup { [CompleteColumns EXCEPT !.the = TheColumns \ {c}] : c \in TheColumns }
        \cup { [CompleteColumns EXCEPT !.usnews = UsnewsColumns \ {c}] : c \in UsnewsColumns }

\* The text of a rank, status or coordinate cell, as a table column holds it.
cell_text(v) ==
    CASE isnull(v) -> NaN
      [] v = "q1" -> <<"q","1">>
      [] v = "q2" -> <<"q","2">>
      [] v = "q3" -> <<"q","3">>
      [] v = "q4" -> <<"q","4">>
      [] v = "q5" -> <<"q","5">>
      [] v = "q6" -> <<"q","6">>
      [] v = "t1" -> <<"t","1">>
      [] v = "t2" -> <<"t","2">>
      [] v = "t3" -> <<"t","3">>
      [] v = "t4" -> <<"t","4">>
      [] v = "t5" -> <<"t","5">>
      [] v = "t6" -> <<"t","6">>
      [] v = "u1" -> <<"u","1">>
      [] v = "u2" -> <<"u","2">>
      [] v = "u3" -> <<"u","3">>
      [] v = "u4" -> <<"u","4">>
      [] v = "u5" -> <<"u","5">>
      [] v = "u6" -> <<"u","6">>
      [] v = "Private" -> <<"P","r","i","v","a","t","e">>
      [] v = "Public" -> <<"P","u","b","l","i","c">>
      [] v = "lat" -> <<"l","a","t">>
      [] v = "lon" -> <<"l","o","n">>

\* df[output_columns] with the columns renamed (lines 750-773).
output_row(record) ==
    [Name |-> record.Name,
     Country |-> record.country,
     QS_Rank |-> cell_text(record.qs_rank),
     THE_Rank |-> cell_text(record.the_rank),
     USNews_Rank |-> cell_text(record.usnews_rank),
     natureOfRunning |-> cell_text(record.status),
     Latitude |-> cell_text(record.Latitude),
     Longitude |-> cell_text(record.Longitude)]

\* The place of a QS rank among the QS ranks.
qs_rank_order(v) == CHOOSE k \in 1..Len(QsRanks) : QsRanks[k] = v

\* sort_values(by="QS_Rank") on the records that have a QS rank, by insertion
\* from the left; the QS ranks of a file are pairwise different.
RECURSIVE sort_by_qs_rank(_, _)
sort_by_qs_rank(records, k) ==
    IF k = 0 THEN <<>>
    ELSE SelectSeq(sort_by_qs_rank(records, k - 1),
                   LAMBDA t : qs_rank_order(t.qs_rank) <= qs_rank_order(records[k].qs_rank))
             \o <<records[k]>>
             \o SelectSeq(sort_by_qs_rank(records, k - 1),
                          LAMBDA t : qs_rank_order(t.qs_rank) > qs_rank_order(records[k].qs_rank))

\* sort_values(by="QS_Rank", na_position="last"): the records without a QS
\* rank follow, in the order they have.
sorted_records(records) ==
    sort_by_qs_rank(SelectSeq(records, LAMBDA r : ~isnull(r.qs_rank)),
                    Len(SelectSeq(records, LAMBDA r : ~isnull(r.qs_rank))))
        \o SelectSeq(records, LAMBDA r : isnull(r.qs_rank))

InitMain ==
    /\ \E nq \in 1..MaxMainRows, nt \in 1..MaxMainRows, nu \in 1..MaxMainRows :
          /\ nq + nt + nu <= MaxMainRows
          /\ qs_csv \in QsCsvTables(nq)
          /\ the_csv \in TheCsvTables(nt)
          /\ usnews_csv \in UsnewsCsvTables(nu)
    /\ columns \in ColumnChoices
    /\ merged_file = Null
    /\ return_code = Null
    /\ qs_df = <<>>
    /\ the_df = <<>>
    /\ usnews_df = <<>>
    /\ merged_list = <<>>
    /\ lookup = <<>>
    /\ pos = 0
    /\ the_matched = 0
    /\ the_new = 0
    /\ usnews_matched = 0
    /\ usnews_new = 0

\* df["Region"] and the other column reads of load_and_clean_qs raise
\* KeyError on a file that lacks the column; main's try block is left.
load_and_clean_qs_KeyError ==
    /\ pc = "load_qs"
    /\ ~has_columns(columns.qs, QsColumns)
    /\ pc' = "except"
    /\ UNCHANGED <<mergeVars, keyVars, dedupVars, unifyVars, normVars, mainVars, scraperVars>>

load_and_clean_the_KeyError ==
    /\ pc = "load_the"
    /\ ~has_columns(columns.the, TheColumns)
    /\ pc' = "except"
    /\ UNCHANGED <<mergeVars, keyVars, dedupVars, unifyVars, normVars, mainVars, scraperVars>>

load_and_clean_usnews_KeyError ==
    /\ pc = "load_usnews"
    /\ ~has_columns(columns.usnews, UsnewsColumns)
    /\ pc' = "except"
    /\ UNCHANGED <<mergeVars, keyVars, dedupVars, unifyVars, normVars, mainVars, scraperVars>>

\* Lines 851-854: finalize_output(merged_df) is handed to deduplicate_fuzzy.
finalize_output ==
    /\ pc = "merge_done"
    /\ df' = [k \in 1..Len(merged_list) |-> output_row(sorted_records(merged_list)[k])]
    /\ pc' = "dedup_init"
    /\ UNCHANGED <<used_indices, merged_groups, dpos, keep_rows, merge_count,
                   merge_details, result>>
    /\ UNCHANGED <<mergeVars, keyVars, unifyVars, normVars, mainVars, scraperVars>>

\* Line 857: output_df.to_csv(MERGED_FILE, index=False).
to_csv ==
    /\ pc = "dedup_done"
    /\ merged_file' = result
    /\ pc' = "verify"
    /\ UNCHANGED <<columns, return_code>>
    /\ UNCHANGED <<mergeVars, keyVars, dedupVars, unifyVars, normVars, scraperVars>>

\* Lines 860-894: verify_ranking_data and the statistics only print; the
\* three tables hold a row, so that the preservation rate has a divisor.
main_return ==
    /\ pc = "verify"
    /\ Len(qs_df) + Len(the_df) + Len(usnews_df) > 0
    /\ return_code' = 0
    /\ pc' = "main_done"
    /\ UNCHANGED <<columns, merged_file>>
    /\ UNCHANGED <<mergeVars, keyVars, dedupVars, unifyVars, normVars, scraperVars>>

\* Lines 896-903: the exception is logged and printed, and main returns 1.
main_except ==
    /\ pc = "except"
    /\ return_code' = 1
    /\ pc' = "main_done"
    /\ UNCHANGED <<columns, merged_file>>
    /\ UNCHANGED <<mergeVars, keyVars, dedupVars, unifyVars, normVars, scraperVars>>

InitMainSpec ==
    /\ pc = "load_qs"
    /\ InitMain
    /\ IdleKeys
    /\ IdleDedup
    /\ IdleUnify
    /\ IdleNorm
    /\ IdleScrapers

NextMain ==
    \/ load_and_clean_qs
    \/ load_and_clean_qs_KeyError
    \/ load_and_clean_the
    \/ load_and_clean_the_KeyError
    \/ load_and_clean_usnews
    \/ load_and_clean_usnews_KeyError
    \/ merge_start
    \/ the_row_step
    \/ the_loop_end
    \/ usnews_row_step
    \/ merge_return
    \/ finalize_output
    \/ dedup_build_keys
    \/ dedup_group_step
    \/ dedup_group_end
    \/ dedup_merge_step
    \/ dedup_return
    \/ to_csv
    \/ main_return
    \/ main_except

SpecMain == InitMainSpec /\ [][NextMain]_vars

\* ------------------------------------------------------------------------
\* main on files that hold China-related rows
\* ------------------------------------------------------------------------

\* Most rows in the three input files together; each file has a row.
MaxChinaRows == 4

\* Region / Country cells: an excluded value, a padded excluded value that
\* country_map renames, a value that is excluded in another spelling only, and
\* the country of the USNews rows.
ChinaCountries ==
    { <<"C","h","i","n","a">>,
      <<" ","M","a","c","a","o"," ">>,
      <<"c","h","i","n","a">>,
      <<"U","S">> }

ChinaNames == { <<"M","I","T">>, <<"t","h","e"," ","M","i","t",",">> }

ChinaQsTables(n) ==
    { [i \in 1..n |-> [Name |-> nm[i], Region |-> rg[i], Rank |-> QsRanks[i],
                       Status |-> QsStatuses[i],
                       Latitude |-> "lat", Longitude |-> "lon"]] :
      nm \in [1..n -> ChinaNames], rg \in [1..n -> ChinaCountries] }

ChinaTheTables(n) ==
    { [i \in 1..n |-> [Name |-> nm[i], Country |-> rg[i], Rank |-> TheRanks[i]]] :
      nm \in [1..n -> ChinaNames], rg \in [1..n -> ChinaCountries] }

ChinaUsnewsTables(n) ==
    { [i \in 1..n |-> [Name |-> nm[i], Rank |-> UsnewsRanks[i]]] :
      nm \in [1..n -> ChinaNames] }

InitChina ==
    /\ \E nq \in 1..MaxChinaRows, nt \in 1..MaxChinaRows, nu \in 1..MaxChinaRows :
          /\ nq + nt + nu <= MaxChinaRows
          /\ qs_csv \in ChinaQsTables(nq)
          /\ the_csv \in ChinaTheTables(nt)
          /\ usnews_csv \in ChinaUsnewsTables(nu)
    /\ columns = CompleteColumns
    /\ merged_file = Null
    /\ return_code = Null
    /\ qs_df = <<>>
    /\ the_df = <<>>
    /\ usnews_df = <<>>
    /\ merged_list = <<>>
    /\ lookup = <<>>
    /\ pos = 0
    /\ the_matched = 0
    /\ the_new = 0
    /\ usnews_matched = 0
    /\ usnews_new = 0

InitChinaSpec ==
    /\ pc = "load_qs"
    /\ InitChina
    /\ IdleKeys
    /\ IdleDedup
    /\ IdleUnify
    /\ IdleNorm
    /\ IdleScrapers

\* main on complete files: no loader raises.
NextChina ==
    \/ load_and_clean_qs
    \/ load_and_clean_the
    \/ load_and_clean_usnews
    \/ merge_start
    \/ the_row_step
    \/ the_loop_end
    \/ usnews_row_step
    \/ merge_return
    \/ finalize_output
    \/ dedup_build_keys
    \/ dedup_group_step
    \/ dedup_group_end
    \/ dedup_merge_step
    \/ dedup_return
    \/ to_csv
    \/ main_return

SpecChina == InitChinaSpec /\ [][NextChina]_vars

\* ------------------------------------------------------------------------
\* The scrapers: find_matching_url and _find_matching_url
\* ------------------------------------------------------------------------

\* Most entries of a URL cache.
MaxCache == 3

digit_value(c) == CHOOSE d \in 0..9 : DigitChars[d + 1] = c

IsDigits(s) == s # <<>> /\ \A i \in 1..Len(s) : \E d \in 1..10 : DigitChars[d] = s[i]

RECURSIVE digits_value(_)
digits_value(s) ==
    IF s = <<>> THEN 0
    ELSE 10 * digits_value(SubSeq(s, 1, Len(s) - 1)) + digit_value(s[Len(s)])

ok_int(n) == [error |-> "", value |-> n]

raise(name) == [error |-> name, value |-> 0]

\* int(text) of a str without underscores: white space around the text is
\* dropped, one sign may stand before the digits, anything else is a
\* ValueError.
int_of_str(s) ==
    LET t == strip(s)
        signed == t # <<>> /\ Head(t) \in {"+", "-"}
        digits == IF signed THEN Tail(t) ELSE t
    IN  IF ~IsDigits(digits) THEN raise("ValueError")
        ELSE IF signed /\ Head(t) = "-" THEN ok_int(0 - digits_value(digits))
        ELSE ok_int(digits_value(digits))

\* int(v): of a str as above; of an int the int; of a bool 1 or 0; of a float
\* the float cut towards zero, a ValueError for nan and an OverflowError for
\* an infinity; of None a TypeError.
int(v) ==
    IF isinstance_str(v) THEN int_of_str(v)
    ELSE IF v = None THEN raise("TypeError")
    ELSE IF v = NaN THEN raise("ValueError")
    ELSE IF Head(v) = "bool" THEN ok_int(IF v = <<"bool","T","r","u","e">> THEN 1 ELSE 0)
    ELSE IF Head(v) = "int" THEN int_of_str(Tail(v))
    ELSE IF Tail(v) \in {<<"i","n","f">>, <<"-","i","n","f">>} THEN raise("OverflowError")
    ELSE LET text == Tail(v)
             whole == SubSeq(text, 1, find(text, ".") - 1)
         IN  int_of_str(whole)

\* rank.split("-")[0]
first_of_split(s) ==
    IF find(s, "-") = 0 THEN s ELSE SubSeq(s, 1, find(s, "-") - 1)

\* The key of a cache that is csv_name, 0 when there is none.
cache_index(cache, name) ==
    IF \E k \in 1..Len(cache) : cache[k].name = name
    THEN CHOOSE k \in 1..Len(cache) : cache[k].name = name
    ELSE 0

\* int(rank.split("-")[0]) for a str with a "-", int(rank) otherwise.
rank_number(rank) ==
    IF isinstance_str(rank) /\ find(rank, "-") > 0
    THEN int(first_of_split(rank))
    ELSE int(rank)

\* list(cache.items())[rank - 1][1] when the place is there, None otherwise.
positional(cache, n) ==
    IF 0 <= n - 1 /\ n - 1 < Len(cache) THEN cache[n].url ELSE Null

\* QSScraper.find_matching_url: the exact name first, then the place the rank
\* gives; only a ValueError of int() is caught.
find_matching_url(cache, name, rank) ==
    IF cache_index(cache, name) > 0
    THEN [url |-> cache[cache_index(cache, name)].url, raised |-> Null]
    ELSE LET parsed == rank_number(rank)
         IN  IF parsed.error = "ValueError" THEN [url |-> Null, raised |-> Null]
             ELSE IF parsed.error # "" THEN [url |-> Null, raised |-> parsed.error]
             ELSE [url |-> positional(cache, parsed.value), raised |-> Null]

\* QSScraperWorker._find_matching_url: the same, with every exception of
\* int() caught.
worker_find_matching_url(cache, name, rank) ==
    IF cache_index(cache, name) > 0
    THEN [url |-> cache[cache_index(cache, name)].url, raised |-> Null]
    ELSE LET parsed == rank_number(rank)
         IN  IF parsed.error # "" THEN [url |-> Null, raised |-> Null]
             ELSE [url |-> positional(cache, parsed.value), raised |-> Null]

\* The universities of the site in the order the cache was filled.
SiteEntries ==
    << [name |-> "MIT", url |-> "/universities/mit"],
       [name |-> "Oxford", url |-> "/universities/oxford"],
       [name |-> "ETH", url |-> "/universities/eth"] >>

\* Caches: a prefix of the site's list, also with the first two exchanged.
UrlCaches ==
    { SubSeq(SiteEntries, 1, n) : n \in 0..MaxCache }
        \cup { <<SiteEntries[2], SiteEntries[1]>> }

CsvNames == {"MIT", "ETH", "Stanford"}

\* Rank cells as text.
RankTexts ==
    { <<"1">>, <<"2">>, <<"3">>, <<"4">>, <<"0">>, <<" ", "2">>, <<"+", "2">>,
      <<"2", "-", "3">>, <<"1", "-", "2">>, <<"4", "-", "5">>, <<"2", "-", "x">>,
      <<"2", "-">>, <<"-", "2">>, <<"x">>, <<>>, <<"2", "+">>, <<"=", "2">>,
      <<"1", ".", "5">> }

\* Rank cells of a column read as numbers, and None.
RankNumbers ==
    { <<"int", "1">>, <<"int", "2">>, <<"int", "0">>, <<"int", "-", "1">>, <<"int", "4">>,
      <<"float", "2", ".", "0">>, <<"float", "2", ".", "7">>, <<"float", "i", "n", "f">>,
      NaN, None }

RankCells == RankTexts \cup RankNumbers

InitUrl ==
    /\ pc \in {"call_find_matching_url", "call_worker_find_matching_url"}
    /\ university_urls \in UrlCaches
    /\ csv_name \in CsvNames
    /\ csv_rank \in RankCells
    /\ url = Null
    /\ raised = Null

\* self.find_matching_url(csv_name, rank) of QSScraper
call_find_matching_url ==
    /\ pc = "call_find_matching_url"
    /\ LET found == find_matching_url(university_urls, csv_name, csv_rank)
       IN  /\ url' = found.url
           /\ raised' = found.raised
           /\ pc' = IF found.raised = Null THEN "url_returned" ELSE "url_raised"
    /\ UNCHANGED <<university_urls, csv_name, csv_rank>>
    /\ UNCHANGED <<runVars, workerVars>>
    /\ UNCHANGED outsideScrapers

\* self._find_matching_url(csv_name, rank) of QSScraperWorker
call_worker_find_matching_url ==
    /\ pc = "call_worker_find_matching_url"
    /\ LET found == worker_find_matching_url(university_urls, csv_name, csv_rank)
       IN  /\ url' = found.url
           /\ raised' = found.raised
           /\ pc' = IF found.raised = Null THEN "url_returned" ELSE "url_raised"
    /\ UNCHANGED <<university_urls, csv_name, csv_rank>>
    /\ UNCHANGED <<runVars, workerVars>>
    /\ UNCHANGED outsideScrapers

InitUrlSpec ==
    /\ InitMergeIdle
    /\ IdleKeys
    /\ IdleDedup
    /\ IdleUnify
    /\ IdleNorm
    /\ IdleMain
    /\ IdleRun
    /\ IdleWorkers
    /\ InitUrl

NextUrl ==
    \/ call_find_matching_url
    \/ call_worker_find_matching_url

SpecUrl == InitUrlSpec /\ [][NextUrl]_vars

\* ------------------------------------------------------------------------
\* The scrapers: QSScraper.run
\* ------------------------------------------------------------------------

\* Most rows of the input CSV of a scraper.
MaxInput == 3

\* Most runs of the scraper in a row.
MaxRuns == 2

\* Rows of the input CSV: a name that is a key of the cache, a name found by
\* its place, a name without a URL and a name whose rank int() cannot take.
InputRows ==
    { [Name |-> "MIT", Rank |-> <<"1">>],
      [Name |-> "Stanford", Rank |-> <<"2", "-", "3">>],
      [Name |-> "Yale", Rank |-> <<"9">>],
      [Name |-> "UCL", Rank |-> <<"float", "i", "n", "f">>] }

RECURSIVE TablesOf(_, _)
TablesOf(rowset, n) ==
    IF n = 0 THEN {<<>>}
    ELSE LET shorter == TablesOf(rowset, n - 1)
         IN  shorter \cup { Append(t, r) : t \in { u \in shorter : Len(u) = n - 1 }, r \in rowset }

\* What extract_coordinates returns: a pair of floats or (None, None).
Coordinates == { <<"51.5", "-0.1">>, <<Null, Null>> }

\* The state when QSScraper() was built and run() has read the input CSV: no
\* progress file and no output file yet.
InitRun ==
    /\ pc = "loop"
    /\ university_urls = SubSeq(SiteEntries, 1, 2)
    /\ csv_name = ""
    /\ csv_rank = <<>>
    /\ url = Null
    /\ raised = Null
    /\ df_input \in TablesOf(InputRows, MaxInput)
    /\ input_idx = 1
    /\ progress = <<>>
    /\ progress_file = <<>>
    /\ csv_output = <<>>
    /\ fetched = <<>>
    /\ runs = 0

\* The row of the loop.
current_row == df_input[input_idx]

in_loop == pc = "loop" /\ input_idx <= Len(df_input)

\* if name in self.progress: continue
run_skip ==
    /\ in_loop
    /\ current_row.Name \in DOMAIN progress
    /\ input_idx' = input_idx + 1
    /\ UNCHANGED <<pc, urlVars, df_input, progress, progress_file, csv_output, fetched, runs>>
    /\ UNCHANGED workerVars
    /\ UNCHANGED outsideScrapers

\* url = self.find_matching_url(name, rank); if not url: continue
run_find_matching_url ==
    /\ in_loop
    /\ current_row.Name \notin DOMAIN progress
    /\ LET found == find_matching_url(university_urls, current_row.Name, current_row.Rank)
       IN  /\ csv_name' = current_row.Name
           /\ csv_rank' = current_row.Rank
           /\ url' = found.url
           /\ raised' = found.raised
           /\ IF found.raised # Null
              THEN pc' = "run_raised" /\ input_idx' = input_idx
              ELSE IF found.url = Null
              THEN pc' = "loop" /\ input_idx' = input_idx + 1
              ELSE pc' = "fetch" /\ input_idx' = input_idx
    /\ UNCHANGED <<university_urls, df_input, progress, progress_file, csv_output, fetched, runs>>
    /\ UNCHANGED workerVars
    /\ UNCHANGED outsideScrapers

\* A fetch that writes the name into the progress map when the page did not
\* load.
run_fetch_university_page_saves_progress ==
    /\ pc = "fetch"
    /\ fetched' = Append(fetched, [run |-> runs + 1, name |-> csv_name, url |-> url])
    /\ \E loaded \in BOOLEAN :
          IF loaded
          THEN /\ pc' = "save"
               /\ input_idx' = input_idx
               /\ UNCHANGED <<progress, progress_file>>
          ELSE /\ pc' = "loop"
               /\ input_idx' = input_idx + 1
               /\ progress' = (csv_name :> [url |-> url, latitude |-> Null, longitude |-> Null]) @@ progress
               /\ progress_file' = progress'
    /\ UNCHANGED <<urlVars, df_input, csv_output, runs>>
    /\ UNCHANGED workerVars
    /\ UNCHANGED outsideScrapers

\* if not self.fetch_university_page(url): continue
run_fetch_university_page ==
    /\ pc = "fetch"
    /\ fetched' = Append(fetched, [run |-> runs + 1, name |-> csv_name, url |-> url])
    /\ \E loaded \in BOOLEAN :
          IF loaded
          THEN pc' = "save" /\ input_idx' = input_idx
          ELSE pc' = "loop" /\ input_idx' = input_idx + 1
    /\ UNCHANGED <<urlVars, df_input, progress, progress_file, csv_output, runs>>
    /\ UNCHANGED workerVars
    /\ UNCHANGED outsideScrapers

\* The row save_to_csv writes: "" for coordinates that were not found.
csv_row(row, coords) ==
    [ Rank |-> row.Rank,
      Name |-> row.Name,
      Latitude |-> IF coords[1] = Null THEN "" ELSE coords[1],
      Longitude |-> IF coords[2] = Null THEN "" ELSE coords[2] ]

\* lat, lng = self.extract_coordinates(); if self.save_to_csv(...): the row is
\* appended to the rows read back from the output file, or the save fails and
\* the loop goes on with the next row.
run_save_to_csv ==
    /\ pc = "save"
    /\ \E coords \in Coordinates, saved \in BOOLEAN :
          IF saved
          THEN /\ csv_output' = Append(csv_output, csv_row(current_row, coords))
               /\ pc' = "save_progress"
               /\ input_idx' = input_idx
          ELSE /\ csv_output' = csv_output
               /\ pc' = "loop"
               /\ input_idx' = input_idx + 1
    /\ UNCHANGED <<urlVars, df_input, progress, progress_file, fetched, runs>>
    /\ UNCHANGED workerVars
    /\ UNCHANGED outsideScrapers

\* The coordinates of the row just written, None for "".
saved_coordinate(cell) == IF cell = "" THEN Null ELSE cell

\* self._save_progress(name, url, lat, lng): the entry is set in memory, then
\* the whole map is written to the progress file; when the file cannot be
\* opened the exception ends the run.
run_save_progress ==
    /\ pc = "save_progress"
    /\ LET last == csv_output[Len(csv_output)]
           entry == [ url |-> url,
                      latitude |-> saved_coordinate(last.Latitude),
                      longitude |-> saved_coordinate(last.Longitude) ]
       IN  progress' = (csv_name :> entry) @@ progress
    /\ \E written \in BOOLEAN :
          IF written
          THEN /\ progress_file' = progress'
               /\ raised' = raised
               /\ pc' = "loop"
               /\ input_idx' = input_idx + 1
          ELSE /\ progress_file' = progress_file
               /\ raised' = "OSError"
               /\ pc' = "run_raised"
               /\ input_idx' = input_idx
    /\ UNCHANGED <<university_urls, csv_name, csv_rank, url, df_input, csv_output, fetched, runs>>
    /\ UNCHANGED workerVars
    /\ UNCHANGED outsideScrapers

\* The loop is over: run returns True.
run_return ==
    /\ pc = "loop"
    /\ input_idx > Len(df_input)
    /\ pc' = "run_returned"
    /\ UNCHANGED <<urlVars, runVars, workerVars>>
    /\ UNCHANGED outsideScrapers

\* The program is started again: QSScraper() loads the progress file, run()
\* reads the same input CSV.
run_again ==
    /\ pc \in {"run_returned", "run_raised"}
    /\ runs + 1 < MaxRuns
    /\ runs' = runs + 1
    /\ progress' = progress_file
    /\ input_idx' = 1
    /\ csv_name' = ""
    /\ csv_rank' = <<>>
    /\ url' = Null
    /\ raised' = Null
    /\ pc' = "loop"
    /\ UNCHANGED <<university_urls, df_input, progress_file, csv_output, fetched>>
    /\ UNCHANGED workerVars
    /\ UNCHANGED outsideScrapers

InitRunSpec ==
    /\ InitMergeIdle
    /\ IdleKeys
    /\ IdleDedup
    /\ IdleUnify
    /\ IdleNorm
    /\ IdleMain
    /\ IdleWorkers
    /\ InitRun

NextRun ==
    \/ run_skip
    \/ run_find_matching_url
    \/ run_fetch_university_page
    \/ run_save_to_csv
    \/ run_save_progress
    \/ run_return
    \/ run_again

SpecRun == InitRunSpec /\ [][NextRun]_vars

\* ------------------------------------------------------------------------
\* The scrapers: chunk_rows and the workers of the parallel scraper
\* ------------------------------------------------------------------------

NUM_WORKERS == 3

\* Most rows of the input CSV of the parallel scraper.
MaxWorkerInput == 4

\* Rows of the input CSV: a name that is a key of the cache, a name found by
\* its place and a name without a URL.
WorkerRows ==
    { [Name |-> "MIT", Rank |-> <<"1">>],
      [Name |-> "Stanford", Rank |-> <<"2", "-", "3">>],
      [Name |-> "Yale", Rank |-> <<"9">>] }

\* math.ceil(total / n_chunks) for the table sizes of the model
ceil_div(total, n) == (total + n - 1) \div n

Min(a, b) == IF a < b THEN a ELSE b

\* rows[a:b] for 0 <= a <= b
slice(s, a, b) == SubSeq(s, Min(a, Len(s)) + 1, Min(b, Len(s)))

RECURSIVE chunks_upto(_, _, _)
chunks_upto(table, chunk_size, n) ==
    IF n = 0 THEN <<>>
    ELSE Append(chunks_upto(table, chunk_size, n - 1),
                slice(table, (n - 1) * chunk_size, n * chunk_size))

\* chunk_rows(df, n_chunks)
chunk_rows(table, n) == chunks_upto(table, ceil_div(Len(table), n), n)

RECURSIVE Repeat(_, _)
Repeat(v, n) == IF n = 0 THEN <<>> ELSE Append(Repeat(v, n - 1), v)

\* main has read the input CSV and the URL cache.
InitWorkers ==
    /\ pc = "call_chunk_rows"
    /\ university_urls = SubSeq(SiteEntries, 1, 2)
    /\ csv_name = ""
    /\ csv_rank = <<>>
    /\ url = Null
    /\ raised = Null
    /\ df_input \in TablesOf(WorkerRows, MaxWorkerInput)
    /\ n_chunks \in 1..NUM_WORKERS
    /\ chunks = <<>>
    /\ out_rows = <<>>
    /\ worker_output = <<>>
    /\ worker_idx = <<>>
    /\ worker_pc = <<>>

\* chunks = chunk_rows(df, num_workers), and one process is started for each
\* chunk.
call_chunk_rows ==
    /\ pc = "call_chunk_rows"
    /\ chunks' = chunk_rows(df_input, n_chunks)
    /\ out_rows' = Repeat(<<>>, n_chunks)
    /\ worker_output' = Repeat(<<>>, n_chunks)
    /\ worker_idx' = Repeat(1, n_chunks)
    /\ worker_pc' = Repeat("loop", n_chunks)
    /\ pc' = "workers"
    /\ UNCHANGED <<urlVars, runVars, n_chunks>>
    /\ UNCHANGED outsideScrapers

\* The row a worker appends to out_rows.
worker_row(row, coords) ==
    [ Rank |-> row.Rank,
      Name |-> row.Name,
      Latitude |-> IF coords[1] = Null \/ coords[2] = Null THEN "" ELSE coords[1],
      Longitude |-> IF coords[1] = Null \/ coords[2] = Null THEN "" ELSE coords[2] ]

\* One pass of the loop of worker_loop that leaves out the row of a page
\* that did not load.
worker_row_step_drops_failed(w) ==
    /\ pc = "workers"
    /\ worker_pc[w] = "loop"
    /\ worker_idx[w] <= Len(chunks[w])
    /\ LET row == chunks[w][worker_idx[w]]
           found == worker_find_matching_url(university_urls, row.Name, row.Rank).url
       IN  \E loaded \in BOOLEAN, coords \in Coordinates :
              out_rows' = [out_rows EXCEPT ![w] =
                  IF found = Null THEN Append(@, worker_row(row, <<Null, Null>>))
                  ELSE IF ~loaded THEN @
                  ELSE Append(@, worker_row(row, coords))]
    /\ worker_idx' = [worker_idx EXCEPT ![w] = @ + 1]
    /\ UNCHANGED <<pc, urlVars, runVars, n_chunks, chunks, worker_output, worker_pc>>
    /\ UNCHANGED outsideScrapers

\* One pass of the loop of worker_loop: a row without coordinates when the
\* URL is not found or the page does not load, the row with what
\* extract_coordinates returned otherwise.
worker_row_step(w) ==
    /\ pc = "workers"
    /\ worker_pc[w] = "loop"
    /\ worker_idx[w] <= Len(chunks[w])
    /\ LET row == chunks[w][worker_idx[w]]
           found == worker_find_matching_url(university_urls, row.Name, row.Rank).url
       IN  \E loaded \in BOOLEAN, coords \in Coordinates :
              out_rows' = [out_rows EXCEPT ![w] =
                  IF found = Null THEN Append(@, worker_row(row, <<Null, Null>>))
                  ELSE IF ~loaded THEN Append(@, worker_row(row, <<Null, Null>>))
                  ELSE Append(@, worker_row(row, coords))]
    /\ worker_idx' = [worker_idx EXCEPT ![w] = @ + 1]
    /\ UNCHANGED <<pc, urlVars, runVars, n_chunks, chunks, worker_output, worker_pc>>
    /\ UNCHANGED outsideScrapers

\* After the loop: the rows are written to the worker's file when there are
\* some; a write that fails is logged and leaves no file (no rows here).
worker_write(w) ==
    /\ pc = "workers"
    /\ worker_pc[w] = "loop"
    /\ worker_idx[w] > Len(chunks[w])
    /\ \E written \in BOOLEAN :
          worker_output' = [worker_output EXCEPT ![w] =
              IF Len(out_rows[w]) > 0 /\ written THEN out_rows[w] ELSE <<>>]
    /\ worker_pc' = [worker_pc EXCEPT ![w] = "done"]
    /\ UNCHANGED <<pc, urlVars, runVars, n_chunks, chunks, out_rows, worker_idx>>
    /\ UNCHANGED outsideScrapers

\* for p in processes: p.join()
main_join ==
    /\ pc = "workers"
    /\ \A w \in 1..n_chunks : worker_pc[w] = "done"
    /\ pc' = "joined"
    /\ UNCHANGED <<urlVars, runVars, workerVars>>
    /\ UNCHANGED outsideScrapers

InitWorkersSpec ==
    /\ InitMergeIdle
    /\ IdleKeys
    /\ IdleDedup
    /\ IdleUnify
    /\ IdleNorm
    /\ IdleMain
    /\ input_idx = 0
    /\ progress = <<>>
    /\ progress_file = <<>>
    /\ csv_output = <<>>
    /\ fetched = <<>>
    /\ runs = 0
    /\ InitWorkers

NextWorkers ==
    \/ call_chunk_rows
    \/ \E w \in 1..NUM_WORKERS : w <= n_chunks /\ worker_row_step(w)
    \/ \E w \in 1..NUM_WORKERS : w <= n_chunks /\ worker_write(w)
    \/ main_join

SpecWorkers == InitWorkersSpec /\ [][NextWorkers]_vars

\* ------------------------------------------------------------------------
\* Claims about merge_datasets
\* ------------------------------------------------------------------------

SameKey(a, b) == a.country = b.country /\ a.name_normalized = b.name_normalized

\* The rows of merged_list when merged_lookup was built (QS rows and new THE rows).
AccumulatedBeforeUsnews == SubSeq(merged_list, 1, Len(qs_df) + the_new)

\* C1: in the table merge_datasets returns, no two rows have the same
\* (canonical country, normalized name) key.
C1_OneRowPerKey ==
    pc = "merge_done" =>
        \A i, j \in 1..Len(merged_list) :
            SameKey(merged_list[i], merged_list[j]) => i = j

\* C2: a THE or USNews row leaves every existing row of another country as it
\* is, whatever its name; when every existing row of its normalized name is of
\* another country, the row is appended as a new row carrying its own rank.
C2_NoHitAcrossCountries ==
    [][ /\ (pc = "the_loop" /\ pos <= Len(the_df)) =>
            LET r == the_df[pos] IN
            /\ \A i \in 1..Len(merged_list) :
                   merged_list[i].country # r.country => merged_list'[i] = merged_list[i]
            /\ (\A i \in 1..Len(merged_list) :
                   merged_list[i].name_normalized = r.name_normalized
                       => merged_list[i].country # r.country)
               => /\ Len(merged_list') = Len(merged_list) + 1
                  /\ SubSeq(merged_list', 1, Len(merged_list)) = merged_list
                  /\ merged_list'[Len(merged_list')].Name = r.Name
                  /\ merged_list'[Len(merged_list')].country = r.country
                  /\ merged_list'[Len(merged_list')].the_rank = r.the_rank
        /\ (pc = "usnews_loop" /\ pos <= Len(usnews_df)) =>
            LET r == usnews_df[pos] IN
            /\ \A i \in 1..Len(merged_list) :
                   merged_list[i].country # r.country => merged_list'[i] = merged_list[i]
            /\ (\A i \in 1..Len(merged_list) :
                   merged_list[i].name_normalized = r.name_normalized
                       => merged_list[i].country # r.country)
               => /\ Len(merged_list') = Len(merged_list) + 1
                  /\ SubSeq(merged_list', 1, Len(merged_list)) = merged_list
                  /\ merged_list'[Len(merged_list')].Name = r.Name
                  /\ merged_list'[Len(merged_list')].country = r.country
                  /\ merged_list'[Len(merged_list')].usnews_rank = r.usnews_rank
      ]_vars

\* C2 witness: a QS row and a later THE row of the same normalized name and
\* another country ended as two rows, the QS row without a THE rank, and the
\* same happened with a USNews row.
C2_Witness ==
    /\ pc = "merge_done"
    /\ \E i, j \in 1..Len(merged_list) :
          /\ i < j
          /\ merged_list[i].name_normalized = merged_list[j].name_normalized
          /\ merged_list[i].country # merged_list[j].country
          /\ merged_list[i].qs_rank # Null /\ merged_list[i].the_rank = Null
          /\ merged_list[j].qs_rank = Null /\ merged_list[j].the_rank # Null
    /\ \E i, j \in 1..Len(merged_list) :
          /\ i < j
          /\ merged_list[i].name_normalized = merged_list[j].name_normalized
          /\ merged_list[i].country # merged_list[j].country
          /\ merged_list[i].usnews_rank = Null
          /\ merged_list[j].usnews_rank # Null /\ merged_list[j].the_rank = Null
                /\ merged_list[j].qs_rank = Null

KeyAbsentFrom(row, records) == \A i \in 1..Len(records) : ~SameKey(row, records[i])

\* C3 as claimed: every THE row whose key is not in the QS table is an output row
\* with only the_rank set (usnews_rank null too), and every USNews row whose key
\* is not in the accumulated set is an output row with only usnews_rank set.
C3_NewRowOnlyOwnRank ==
    pc = "merge_done" =>
        /\ \A i \in 1..Len(the_df) :
              KeyAbsentFrom(the_df[i], qs_df) =>
                  \E j \in 1..Len(merged_list) :
                      merged_list[j] =
                          [Name |-> the_df[i].Name, country |-> the_df[i].country,
                           name_normalized |-> the_df[i].name_normalized,
                           qs_rank |-> Null, the_rank |-> the_df[i].the_rank,
                           usnews_rank |-> Null,
                           status |-> Null, Latitude |-> Null, Longitude |-> Null]
        /\ \A i \in 1..Len(usnews_df) :
              KeyAbsentFrom(usnews_df[i], AccumulatedBeforeUsnews) =>
                  \E j \in 1..Len(merged_list) :
                      merged_list[j] =
                          [Name |-> usnews_df[i].Name, country |-> usnews_df[i].country,
                           name_normalized |-> usnews_df[i].name_normalized,
                           qs_rank |-> Null, the_rank |-> Null,
                           usnews_rank |-> usnews_df[i].usnews_rank,
                           status |-> Null, Latitude |-> Null, Longitude |-> Null]

\* C3 as amended: the row of a THE record absent from QS has qs_rank, status and
\* coordinates null and its own the_rank; its usnews_rank is null unless a
\* USNews row has the same key, and then it is null or that row's rank.  The
\* USNews part is as claimed.
C3_NewRowOwnRankAmended ==
    pc = "merge_done" =>
        /\ \A i \in 1..Len(the_df) :
              KeyAbsentFrom(the_df[i], qs_df) =>
                  \E j \in 1..Len(merged_list) :
                      /\ [merged_list[j] EXCEPT !.usnews_rank = Null] =
                            [Name |-> the_df[i].Name, country |-> the_df[i].country,
                             name_normalized |-> the_df[i].name_normalized,
                             qs_rank |-> Null, the_rank |-> the_df[i].the_rank,
                             usnews_rank |-> Null,
                             status |-> Null, Latitude |-> Null, Longitude |-> Null]
                      /\ \/ merged_list[j].usnews_rank = Null
                         \/ \E u \in 1..Len(usnews_df) :
                               /\ SameKey(usnews_df[u], the_df[i])
                               /\ merged_list[j].usnews_rank = usnews_df[u].usnews_rank
        /\ \A i \in 1..Len(usnews_df) :
              KeyAbsentFrom(usnews_df[i], AccumulatedBeforeUsnews) =>
                  \E j \in 1..Len(merged_list) :
                      merged_list[j] =
                          [Name |-> usnews_df[i].Name, country |-> usnews_df[i].country,
                           name_normalized |-> usnews_df[i].name_normalized,
                           qs_rank |-> Null, the_rank |-> Null,
                           usnews_rank |-> usnews_df[i].usnews_rank,
                           status |-> Null, Latitude |-> Null, Longitude |-> Null]

\* C3 witness: the merge ended with a THE row absent from QS that a USNews row
\* then matched, another THE row absent from QS that no USNews row matched,
\* and a USNews row appended as new.
C3_Witness ==
    /\ pc = "merge_done"
    /\ usnews_new >= 1
    /\ \E i \in 1..Len(the_df), j \in 1..Len(merged_list) :
          /\ KeyAbsentFrom(the_df[i], qs_df)
          /\ merged_list[j].the_rank = the_df[i].the_rank
          /\ merged_list[j].usnews_rank # Null
    /\ \E i \in 1..Len(the_df), j \in 1..Len(merged_list) :
          /\ KeyAbsentFrom(the_df[i], qs_df)
          /\ merged_list[j].the_rank = the_df[i].the_rank
          /\ merged_list[j].usnews_rank = Null

\* C4: a step in which a THE (USNews) row hits an existing row changes nothing
\* in the accumulating table but the the_rank (usnews_rank) of the one row
\* with the key of the incoming row, which becomes the incoming rank.
C4_HitChangesOnlyOwnRank ==
    [][ /\ (pc = "the_loop" /\ pos <= Len(the_df)
                /\ <<the_df[pos].country, the_df[pos].name_normalized>> \in DOMAIN lookup) =>
            \E m \in 1..Len(merged_list) :
                /\ SameKey(merged_list[m], the_df[pos])
                /\ merged_list' = [merged_list EXCEPT ![m].the_rank = the_df[pos].the_rank]
        /\ (pc = "usnews_loop" /\ pos <= Len(usnews_df)
                /\ <<usnews_df[pos].country, usnews_df[pos].name_normalized>> \in DOMAIN lookup) =>
            \E m \in 1..Len(merged_list) :
                /\ SameKey(merged_list[m], usnews_df[pos])
                /\ merged_list' =
                      [merged_list EXCEPT ![m].usnews_rank = usnews_df[pos].usnews_rank]
      ]_vars

\* C4 witness: a THE row hit a QS row that then also took a USNews rank, the
\* incoming names being spelt differently from the name the row keeps.
C4_Witness ==
    /\ pc = "merge_done"
    /\ the_matched >= 1
    /\ usnews_matched >= 1
    /\ \E m \in 1..Len(merged_list), t \in 1..Len(the_df), u \in 1..Len(usnews_df) :
          /\ merged_list[m].qs_rank # Null
          /\ merged_list[m].the_rank = the_df[t].the_rank
          /\ merged_list[m].usnews_rank = usnews_df[u].usnews_rank
          /\ merged_list[m].Name # the_df[t].Name
          /\ merged_list[m].Name # usnews_df[u].Name

\* The qs_rank, the_rank and usnews_rank of the first n records of a list.
RanksOfFirst(list, n) ==
    [k \in 1..n |-> <<list[k].qs_rank, list[k].the_rank, list[k].usnews_rank>>]

\* C19: for every institution of the QS table, the qs_rank, the_rank and
\* usnews_rank of its record after the merge are the same whether the THE
\* table is applied before the USNews table, as merge_datasets does, or after
\* it.
C19_QsRanksIndependentOfOrder ==
    pc = "merge_done" =>
        /\ merged_list = the_before_usnews(qs_df, the_df, usnews_df)
        /\ RanksOfFirst(merged_list, Len(qs_df))
              = RanksOfFirst(usnews_before_the(qs_df, the_df, usnews_df), Len(qs_df))

\* A QS institution got a THE rank, and an institution that QS does not have
\* got another record in the other order.
C19_Witness ==
    /\ pc = "merge_done"
    /\ \E i \in 1..Len(qs_df) : ~isnull(merged_list[i].the_rank)
    /\ merged_list # usnews_before_the(qs_df, the_df, usnews_df)

\* C28: when merge_datasets returns, the first rows of the merged list are
\* the QS rows, each at its place with its name, country, QS rank, status and
\* coordinates; every THE row and every USNews row was counted once, as
\* matched or as new; and the list has a row per QS row and per row counted
\* as new.
C28_NoRowLostOrDuplicated ==
    pc = "merge_done" =>
        /\ Len(merged_list) >= Len(qs_df)
        /\ \A i \in 1..Len(qs_df) :
              /\ merged_list[i].Name = qs_df[i].Name
              /\ merged_list[i].country = qs_df[i].country
              /\ merged_list[i].name_normalized = qs_df[i].name_normalized
              /\ merged_list[i].qs_rank = qs_df[i].qs_rank
              /\ merged_list[i].status = qs_df[i].status
              /\ merged_list[i].Latitude = qs_df[i].Latitude
              /\ merged_list[i].Longitude = qs_df[i].Longitude
        /\ the_matched + the_new = Len(the_df)
        /\ usnews_matched + usnews_new = Len(usnews_df)
        /\ Len(merged_list) = Len(qs_df) + the_new + usnews_new

\* C28 witness: a merge of a QS row, a THE row that hit, a THE row that was
\* new and a USNews row.
C28_Witness ==
    /\ pc = "merge_done"
    /\ Len(qs_df) > 0
    /\ the_matched > 0
    /\ the_new > 0
    /\ usnews_matched + usnews_new > 0

\* ------------------------------------------------------------------------
\* Claims about build_name_keys and is_same_university
\* ------------------------------------------------------------------------

\* The bracket content, case-folded and trimmed, equals or starts with a
\* stoplist entry.
Stoplisted(alias) ==
    LET al == lower(strip(alias)) IN
    \E p \in ignore_patterns : Len(p) <= Len(al) /\ SubSeq(al, 1, Len(p)) = p

\* The bracket content has at most 2 characters once normalized.
ShortAlias(alias) == Len(normalize_name(lower(strip(alias)))) <= 2

\* A key with a word that is no generic institutional word.
SubstantialKey(key) ==
    \E w \in split(key) : w \notin common_words

\* Both rows have a country and it is the same but for case.
InSameCountry ==
    /\ row_a.Country # <<>>
    /\ row_b.Country # <<>>
    /\ lower(row_a.Country) = lower(row_b.Country)

\* The normalized bracket content is one of the country codes that
\* build_name_keys refuses as a key.
CountryCodeAlias(alias) == normalize_name(lower(strip(alias))) \in disallowed_short

\* C5 as claimed: a record named "B (A)" whose alias A is neither stoplisted
\* nor of at most 2 characters is found the same university as a record
\* named "B" and as a record named "A" of the same country, whenever the key
\* they share (the normalized B, the normalized A) is not made of generic
\* words only.
C5_BracketAliasMatches ==
    pc = "keys_compared" =>
        \A B \in BaseNames, A \in Aliases :
            (/\ row_a.Name = bracketed(B, A)
             /\ ~Stoplisted(A) /\ ~ShortAlias(A)
             /\ InSameCountry)
            => /\ (row_b.Name = B /\ SubstantialKey(normalize_name(B))) => same
               /\ (row_b.Name = A /\ SubstantialKey(normalize_name(A))) => same

\* C5 as amended: the same, for an alias that moreover is not one of the
\* country codes usa, uk, us, prc, nz, sg, hk, de, fr, jp, in once normalized.
C5_AcceptedAliasMatches ==
    pc = "keys_compared" =>
        \A B \in BaseNames, A \in Aliases :
            (/\ row_a.Name = bracketed(B, A)
             /\ ~Stoplisted(A) /\ ~ShortAlias(A) /\ ~CountryCodeAlias(A)
             /\ InSameCountry)
            => /\ (row_b.Name = B /\ SubstantialKey(normalize_name(B))) => same
               /\ (row_b.Name = A /\ SubstantialKey(normalize_name(A))) => same

\* C5 witness: "Tech (MIT)" was compared with "MIT" of the same
\* country (spelt in another case) and found the same.
C5_Witness ==
    /\ pc = "keys_compared"
    /\ row_a.Name = <<"T","e","c","h"," ","(","M","I","T",")">>
    /\ row_b.Name = <<"M","I","T">>
    /\ row_a.Country = <<"J","a","p","a","n">>
    /\ row_b.Country = <<"j","a","p","a","n">>
    /\ same

\* C6: a bracket content that is stoplisted or of at most 2 characters is not
\* made a key: when the normalized content is among the keys it is there as
\* the normalized base or full name.  And two rows of one country whose
\* bracket contents are stoplisted and whose base names differ are not found
\* the same.
C6_StoplistedAliasIsNoKey ==
    /\ pc \in {"keys_built", "keys_compared"} =>
          \A B \in BaseNames \cup {<<>>, <<"U","S","A">>}, A \in Aliases :
              (row_a.Name = bracketed(B, A) /\ (Stoplisted(A) \/ ShortAlias(A)))
              => (normalize_name(A) \in row_a.name_keys
                    => normalize_name(A) \in {normalize_name(B), normalize_name(row_a.Name)})
    /\ pc = "keys_compared" =>
          \A B1 \in BaseNames, A1 \in Aliases :
              (row_a.Name = bracketed(B1, A1) /\ Stoplisted(A1) /\ InSameCountry)
              => \A B2 \in BaseNames, A2 \in Aliases :
                    (/\ row_b.Name = bracketed(B2, A2)
                     /\ Stoplisted(A2)
                     /\ normalize_name(B1) # normalize_name(B2))
                    => ~same

\* C6 witness: "Tech (USA)" and "College (usab)" of one country were
\* compared; neither has a key from its bracket and they are not the same.
C6_Witness ==
    /\ pc = "keys_compared"
    /\ row_a.Name = <<"T","e","c","h"," ","(","U","S","A",")">>
    /\ row_b.Name = <<"C","o","l","l","e","g","e"," ","(","u","s","a","b",")">>
    /\ InSameCountry
    /\ row_a.name_keys = { <<"t","e","c","h"," ","(","u","s","a",")">>, <<"t","e","c","h">> }
    /\ <<"u","s","a","b">> \notin row_b.name_keys
    /\ ~same

\* C7: two rows of one country whose common keys are all made of generic
\* institutional words only are not found the same.
C7_GenericOnlyRejected ==
    pc = "keys_compared" =>
        ((\A k \in row_a.name_keys \cap row_b.name_keys : ~SubstantialKey(k)) => ~same)

\* C7 witness: two rows of one country whose only common key is
\* "college school".
C7_Witness ==
    /\ pc = "keys_compared"
    /\ InSameCountry
    /\ row_a.name_keys \cap row_b.name_keys
           = { <<"c","o","l","l","e","g","e"," ","s","c","h","o","o","l">> }
    /\ row_a.Name # row_b.Name
    /\ ~same

\* C8 as claimed: the answer is true exactly when the countries are equal
\* but for case and the key sets share a substantial key.
C8_SameIffCountryAndKey ==
    pc = "keys_compared" =>
        (same <=> /\ lower(row_a.Country) = lower(row_b.Country)
                  /\ \E k \in row_a.name_keys \cap row_b.name_keys : SubstantialKey(k))

\* C8 as amended: the answer is true exactly when both rows have a country,
\* the countries are equal but for case, and the key sets share a substantial
\* key.
C8_SameIffNonEmptyCountryAndKey ==
    pc = "keys_compared" =>
        (same <=> /\ row_a.Country # <<>>
                  /\ row_b.Country # <<>>
                  /\ lower(row_a.Country) = lower(row_b.Country)
                  /\ \E k \in row_a.name_keys \cap row_b.name_keys : SubstantialKey(k))

\* C8 witness: two rows whose countries differ in case only were found the
\* same through a shared substantial key.
C8_Witness ==
    /\ pc = "keys_compared"
    /\ row_a.Country # row_b.Country
    /\ lower(row_a.Country) = lower(row_b.Country)
    /\ \E k \in row_a.name_keys \cap row_b.name_keys : SubstantialKey(k)
    /\ same

\* ------------------------------------------------------------------------
\* Claims about deduplicate_fuzzy
\* ------------------------------------------------------------------------

\* The number of non-null fields of a record of the table.
NonNullFields(row) ==
    Cardinality({col \in {"Name", "Country", "QS_Rank", "THE_Rank", "USNews_Rank",
                          "natureOfRunning", "Latitude", "Longitude"} :
                    ~isna(row[col])})

\* The records of a group.
Members(group) == {group[n] : n \in 1..Len(group)}

\* C9: the record kept for a group of several records is a record of the
\* group, no record of the group has more non-null fields, and every record
\* of the group with as many non-null fields comes later in the table.
C9_RepresentativeMostCompleteFirstSeen ==
    \A n \in 1..Len(merge_details) :
        LET d == merge_details[n] IN
        /\ d.keep \in Members(d.group)
        /\ \A j \in Members(d.group) :
              /\ NonNullFields(df[j]) <= NonNullFields(df[d.keep])
              /\ NonNullFields(df[j]) = NonNullFields(df[d.keep]) => d.keep <= j

\* C9 witness: a group of three was merged whose seed is not the most
\* complete record; the second and third records tie and the second is kept.
C9_Witness ==
    /\ pc = "dedup_done"
    /\ \E n \in 1..Len(merge_details) :
          LET d == merge_details[n] IN
          /\ Len(d.group) = 3
          /\ d.keep = d.group[2]
          /\ NonNullFields(df[d.group[1]]) < NonNullFields(df[d.keep])
          /\ NonNullFields(df[d.group[3]]) = NonNullFields(df[d.keep])

\* A cell that is null, empty or blank.
EmptyValue(value) == isna(value) \/ strip(value) = <<>>

\* The order of completeness: more non-null fields first, and of two records
\* with as many the one seen first.
MoreComplete(i, j) ==
    \/ NonNullFields(df[i]) > NonNullFields(df[j])
    \/ NonNullFields(df[i]) = NonNullFields(df[j]) /\ i < j

\* C10: in the merged record of a group of several records, every field
\* other than Name and Country that is empty in the representative has the
\* value of the first sibling, in the order of completeness, whose value for
\* the field is not empty, and is empty only when no sibling has a value.
C10_EmptyFieldsFilledFromFirstSibling ==
    \A k \in 1..Len(keep_rows) :
        \A n \in 1..Len(merge_details) :
            merge_details[n].group = merged_groups[k] =>
                LET rep == merge_details[n].keep
                    siblings == Members(merged_groups[k]) \ {rep}
                IN  \A col \in {"QS_Rank", "THE_Rank", "USNews_Rank",
                                "natureOfRunning", "Latitude", "Longitude"} :
                        EmptyValue(df[rep][col]) =>
                            LET able == {s \in siblings : ~EmptyValue(df[s][col])} IN
                            IF able = {} THEN EmptyValue(keep_rows[k][col])
                            ELSE \E s \in able :
                                    /\ \A t \in able \ {s} : MoreComplete(s, t)
                                    /\ keep_rows[k][col] = df[s][col]

\* The representative of the group at place k of merged_groups: the record
\* the log says was kept, the only record of a group of one.
RepresentativeOf(k) ==
    IF Len(merged_groups[k]) = 1 THEN merged_groups[k][1]
    ELSE (CHOOSE d \in {merge_details[n] : n \in 1..Len(merge_details)} :
              d.group = merged_groups[k]).keep

\* C11: every kept record has the Name and the Country of its representative,
\* empty or not, and every other field of the representative that is neither
\* null nor empty is in the kept record unchanged, whatever the siblings hold.
C11_RepresentativeValuesKept ==
    \A k \in 1..Len(keep_rows) :
        LET rep == df[RepresentativeOf(k)] IN
        /\ keep_rows[k].Name = rep.Name
        /\ keep_rows[k].Country = rep.Country
        /\ \A col \in {"QS_Rank", "THE_Rank", "USNews_Rank",
                        "natureOfRunning", "Latitude", "Longitude"} :
              (~isna(rep[col]) /\ rep[col] # <<>>) => keep_rows[k][col] = rep[col]

\* C11 witness: a group was merged in which a sibling has another QS rank
\* and another name than the representative, and the merged record has the
\* representative's; and a record without name and country was kept as it is.
C11_Witness ==
    /\ pc = "dedup_done"
    /\ \E k \in 1..Len(keep_rows) :
          /\ Len(merged_groups[k]) > 1
          /\ \E s \in Members(merged_groups[k]) \ {RepresentativeOf(k)} :
                /\ ~isna(df[s].QS_Rank)
                /\ ~isna(df[RepresentativeOf(k)].QS_Rank)
                /\ df[s].QS_Rank # df[RepresentativeOf(k)].QS_Rank
                /\ df[s].Name # df[RepresentativeOf(k)].Name
                /\ keep_rows[k].QS_Rank = df[RepresentativeOf(k)].QS_Rank
    /\ \E k \in 1..Len(keep_rows) :
          /\ isna(keep_rows[k].Name)
          /\ keep_rows[k].Country = <<>>

\* The records in the groups before place k of merged_groups.
ConsumedBefore(k) == UNION {Members(merged_groups[n]) : n \in 1..(k - 1)}

\* C12: every group starts with its seed, a record no earlier group holds,
\* and holds besides it exactly the later records that no earlier group holds
\* and that are the same university as the seed itself; so a record that is
\* the same university as a member but not as the seed is not in the group.
C12_GroupIsSeedAndDirectMatches ==
    \A k \in 1..Len(merged_groups) :
        LET seed == merged_groups[k][1] IN
        /\ seed \notin ConsumedBefore(k)
        /\ Members(merged_groups[k]) =
              {seed} \cup {j \in (seed + 1)..Len(df) :
                             /\ j \notin ConsumedBefore(k)
                             /\ is_same_university(df[seed], df[j])}
        /\ \A b \in Members(merged_groups[k]), c \in (seed + 1)..Len(df) :
              (is_same_university(df[b], df[c]) /\ ~is_same_university(df[seed], df[c]))
              => c \notin Members(merged_groups[k])

\* C12 witness: the table A, B, C, where A is the same university as B and B
\* as C but A not as C, was grouped into {A, B} and {C}.
C12_Witness ==
    /\ pc = "dedup_done"
    /\ Len(df) = 3
    /\ is_same_university(df[1], df[2])
    /\ is_same_university(df[2], df[3])
    /\ ~is_same_university(df[1], df[3])
    /\ merged_groups = << <<1, 2>>, <<3>> >>

\* The number of duplicates in the first k groups: the records of a group
\* beyond its first.
RECURSIVE DuplicatesIn(_, _)
DuplicatesIn(groups, k) ==
    IF k = 0 THEN 0 ELSE DuplicatesIn(groups, k - 1) + (Len(groups[k]) - 1)

\* C26: when deduplicate_fuzzy returns, every record of the table is in
\* exactly one group and at one place of it; the groups are in the order of
\* their seeds, the seed being the first record of its group in the table;
\* the result has one row per group, at the place of the group, with the
\* name and country of a record of the group; and the number of duplicates
\* reported, the rows of the table less the rows of the result, is the number
\* of records that are not the first of their group.
C26_GroupsPartitionRows ==
    pc = "dedup_done" =>
        /\ \A i \in 1..Len(df) :
              Cardinality({k \in 1..Len(merged_groups) : i \in Members(merged_groups[k])}) = 1
        /\ \A k \in 1..Len(merged_groups) :
              /\ Members(merged_groups[k]) \subseteq 1..Len(df)
              /\ Cardinality(Members(merged_groups[k])) = Len(merged_groups[k])
              /\ \A n \in 2..Len(merged_groups[k]) :
                    merged_groups[k][n - 1] < merged_groups[k][n]
              /\ k > 1 => merged_groups[k - 1][1] < merged_groups[k][1]
        /\ Len(result) = Len(merged_groups)
        /\ \A k \in 1..Len(result) :
              \E i \in Members(merged_groups[k]) :
                  result[k].Name = df[i].Name /\ result[k].Country = df[i].Country
        /\ Len(df) - Len(result) = DuplicatesIn(merged_groups, Len(merged_groups))

\* C26 witness: of three records the first and the third were made one
\* group and the second a group of its own.
C26_Witness ==
    /\ pc = "dedup_done"
    /\ merged_groups = << <<1, 3>>, <<2>> >>
    /\ Len(result) = 2

\* ------------------------------------------------------------------------
\* Claims about the name unifier
\* ------------------------------------------------------------------------

\* The places of the canonical records whose normalized name has a similarity
\* of at least 90 with the given normalized name.
SimilarRecords(name_normalized) ==
    {k \in 1..Len(unique_records) :
        ratio_reaches(name_normalized, unique_records[k].name_normalized, 90)}

\* C13: a round of the scan for a row whose normalized name is similar to a
\* canonical name adds the row's source to the first such canonical record,
\* leaves the other records as they are and adds no record; a round for a row
\* similar to none appends the row as a new canonical record.
C13_MergedIntoFirstSimilar ==
    [][ (pc = "unify_loop" /\ uni_idx <= Len(all_unis)) =>
          LET row == all_unis[uni_idx]
              similar == SimilarRecords(row.name_normalized)
          IN  IF similar # {}
              THEN LET first == CHOOSE k \in similar : \A n \in similar : k <= n IN
                   /\ Len(unique_records') = Len(unique_records)
                   /\ row.source \in unique_records'[first].sources
                   /\ \A n \in 1..Len(unique_records) :
                          n # first => unique_records'[n] = unique_records[n]
              ELSE /\ Len(unique_records') = Len(unique_records) + 1
                   /\ unique_records'[Len(unique_records')].name = row.name
                   /\ SubSeq(unique_records', 1, Len(unique_records)) = unique_records
      ]_vars

\* The rows that an assignment of rows to canonical records gives to record k,
\* and the first of them.
RowsOf(f, k) == {i \in 1..Len(all_unis) : f[i] = k}

Founder(f, k) == CHOOSE i \in RowsOf(f, k) : \A j \in RowsOf(f, k) : i <= j

RowNames == [i \in 1..Len(all_unis) |-> all_unis[i].name]

\* C24: the canonical records depend on the order of the rows.  Of the three
\* names "Yale U", "Yale Un" and "Yale Uni" the second is similar to the other
\* two, which are not similar to each other: a table of these three rows
\* gives one record when "Yale Un" comes first, and two records in every
\* other order, the first with the name of the first row and the sources of
\* two rows.
C24_OrderChangesRecords ==
    (/\ pc \in {"unify_loop", "unify_done"}
     /\ uni_idx > Len(all_unis)
     /\ Len(all_unis) = 3
     /\ {all_unis[i].name : i \in 1..3} = {<<"Y","a","l","e"," ","U">>, <<"Y","a","l","e"," ","U","n">>, <<"Y","a","l","e"," ","U","n","i">>}) =>
        IF all_unis[1].name = <<"Y","a","l","e"," ","U","n">>
        THEN Len(unique_records) = 1
        ELSE /\ Len(unique_records) = 2
             /\ unique_records[1].name = all_unis[1].name
             /\ unique_records[2].name # <<"Y","a","l","e"," ","U","n">>

\* C24 witness: the three rows with "Yale Un" first were made one record.
C24_Witness ==
    /\ pc = "unify_done"
    /\ RowNames = <<<<"Y","a","l","e"," ","U","n">>, <<"Y","a","l","e"," ","U">>, <<"Y","a","l","e"," ","U","n","i">>>>
    /\ Len(unique_records) = 1

\* C27: after every prefix of the rows, no two canonical records have the
\* same normalized name, and seen_names holds the normalized names of the
\* canonical records, one for one and in their order.
C27_DistinctNamesSeenInStep ==
    /\ \A i \in 1..Len(unique_records), j \in 1..Len(unique_records) :
          i # j => unique_records[i].name_normalized # unique_records[j].name_normalized
    /\ Len(seen_names) = Len(unique_records)
    /\ \A k \in 1..Len(unique_records) : seen_names[k] = unique_records[k].name_normalized

\* ------------------------------------------------------------------------
\* Claims about the normalizers
\* ------------------------------------------------------------------------

\* C14: normalize_name is idempotent: for every raw name, normalizing the
\* normalized name gives the normalized name again.
C14_NormalizeNameIdempotent ==
    pc = "name_twice" => twice = once

\* C15: two raw names that differ only in letter case, in leading, trailing or
\* repeated whitespace, in commas for spaces or in one leading "the " token
\* have the same normalized name.
C15_VariantsShareKey ==
    pc = "name_once" => once = other_once

\* C16: normalize_country is idempotent and total: applied to its own result
\* it returns that result; a cell whose trimmed text is an alias gives the
\* alias's canonical name, which the map leaves fixed; any other cell is
\* returned trimmed and otherwise unchanged, a missing one as "".
C16_CountryIdempotentAndTotal ==
    pc = "country_twice" =>
        /\ twice = once
        /\ IF isna(raw) THEN once = <<>>
           ELSE IF strip(raw) \in country_aliases
           THEN /\ once = country_map(strip(raw))
                /\ country_map(once) = once
                /\ \A alias \in country_aliases :
                      country_map(country_map(alias)) = country_map(alias)
           ELSE once = strip(raw)

\* A padded alias was normalized twice.
C16_Witness ==
    /\ pc = "country_twice"
    /\ ~isna(raw)
    /\ strip(raw) # raw
    /\ strip(raw) \in country_aliases
    /\ once # strip(raw)

\* A status cell holds an indicator, whatever the case of its letters.
HasIndicator(status, terms) ==
    ~isna(status) /\ \E t \in terms : contains(lower(status), t)

\* C17: the status normalizer returns Private for a cell that holds a private
\* indicator, also when it holds a public one as well; Public for a cell that
\* holds a public indicator and no private one; and the unknown status, which
\* the code writes as None, for every other cell, a missing one included.
C17_PrivateBeforePublicElseUnknown ==
    pc = "status_once" =>
        IF HasIndicator(raw, private_terms) THEN once = "Private"
        ELSE IF HasIndicator(raw, public_terms) THEN once = "Public"
        ELSE isnull(once)

\* A cell with a private and a public indicator was normalized.
C17_Witness ==
    /\ pc = "status_once"
    /\ HasIndicator(raw, private_terms)
    /\ HasIndicator(raw, public_terms)
    /\ once = "Private"

\* ------------------------------------------------------------------------
\* Claims about the excluded countries
\* ------------------------------------------------------------------------

\* The QS rank cell belongs to a QS row that is not China-related, the THE
\* rank cell to such a THE row; the ranks of a file are pairwise different.
FromKeptRows(qs_rank, the_rank) ==
    /\ isna(qs_rank) \/
          \E i \in 1..Len(qs_csv) :
              cell_text(qs_csv[i].Rank) = qs_rank /\ strip(qs_csv[i].Region) \notin EXCLUDE_COUNTRIES
    /\ isna(the_rank) \/
          \E i \in 1..Len(the_csv) :
              cell_text(the_csv[i].Rank) = the_rank /\ strip(the_csv[i].Country) \notin EXCLUDE_COUNTRIES

\* No row of an output table has an excluded country or a rank of an
\* excluded row.
NoChinaRelated(table) ==
    \A k \in 1..Len(table) :
        /\ table[k].Country \notin EXCLUDE_COUNTRIES
        /\ FromKeptRows(table[k].QS_Rank, table[k].THE_Rank)

\* C22: no row of a QS or THE file whose Region / Country is an excluded
\* value is in the loaded tables, in the merged list, in the finalized table,
\* in the deduplicated table or in the file written.
C22_NoChinaRelatedRow ==
    /\ \A k \in 1..Len(qs_df) :
          /\ qs_df[k].country \notin EXCLUDE_COUNTRIES
          /\ FromKeptRows(cell_text(qs_df[k].qs_rank), NaN)
    /\ \A k \in 1..Len(the_df) :
          /\ the_df[k].country \notin EXCLUDE_COUNTRIES
          /\ FromKeptRows(NaN, cell_text(the_df[k].the_rank))
    /\ \A k \in 1..Len(merged_list) :
          /\ merged_list[k].country \notin EXCLUDE_COUNTRIES
          /\ FromKeptRows(cell_text(merged_list[k].qs_rank), cell_text(merged_list[k].the_rank))
    /\ NoChinaRelated(df)
    /\ NoChinaRelated(keep_rows)
    /\ NoChinaRelated(result)
    /\ pc \in {"verify", "main_done"} => NoChinaRelated(merged_file)

\* C22 witness: main returned after writing a file that holds a row, from a
\* QS file and a THE file that each hold an excluded row, one of them padded,
\* and a row whose country is excluded in another spelling only.
C22_Witness ==
    /\ pc = "main_done"
    /\ Len(merged_file) > 0
    /\ \E i \in 1..Len(qs_csv) : is_china_related(qs_csv[i].Region)
    /\ \E i \in 1..Len(the_csv) :
          is_china_related(the_csv[i].Country) /\ the_csv[i].Country \notin EXCLUDE_COUNTRIES
    /\ \E k \in 1..Len(merged_file) : merged_file[k].Country = <<"c","h","i","n","a">>

\* ------------------------------------------------------------------------
\* Claims about values that are no str
\* ------------------------------------------------------------------------

\* C21: for every value that is missing or no str, normalize_name and
\* normalize_country return the empty string, the status normalizer returns
\* the unknown status (None), and build_name_keys returns a set of keys.
C21_MissingOrNonStrGivesEmpty ==
    /\ pc = "name_returned" => once = <<>>
    /\ pc = "country_returned" => once = <<>>
    /\ pc = "status_returned" => isnull(once)
    /\ pc = "keys_returned" => once \subseteq {normalize_name(raw)}

\* ------------------------------------------------------------------------
\* Claims about the abbreviation table
\* ------------------------------------------------------------------------

\* The abbreviation in the brackets of a name "X (abbreviation)".
BracketAbbreviation(name) ==
    CHOOSE alias \in abbreviation_keys :
        \E base \in AbbrevBases : name = bracketed(base, alias)

\* C18: for every entry of the abbreviation table, the keys of a name
\* "X (abbreviation)" contain the expansion, and the record is the same
\* university as a record of its country whose name is the expansion.
C18_ExpansionIsKey ==
    pc = "keys_compared" =>
        LET expansion == abbreviations(BracketAbbreviation(row_a.Name)) IN
        /\ expansion \in row_a.name_keys
        /\ (row_b.Name = expansion /\ row_b.Country = row_a.Country) => same

\* ------------------------------------------------------------------------
\* Claims about main
\* ------------------------------------------------------------------------

\* An input file lacks a column that its loader reads.
LacksColumn ==
    \/ ~({"Name", "Region", "Rank", "Status", "Latitude", "Longitude"} \subseteq columns.qs)
    \/ ~({"Name", "Country", "Rank"} \subseteq columns.the)
    \/ ~({"Name", "Rank"} \subseteq columns.usnews)

\* C20: when an input file lacks a required column, the run never gets to
\* merge_datasets or deduplicate_fuzzy, no merged table is written, and main
\* returns the error result 1 and nothing else.
C20_MissingColumnFailsBeforeMatching ==
    LacksColumn =>
        /\ pc \in {"load_qs", "load_the", "load_usnews", "except", "main_done"}
        /\ merged_list = <<>>
        /\ df = <<>>
        /\ merged_groups = <<>>
        /\ isnull(merged_file)
        /\ IF pc = "main_done" THEN return_code = 1 ELSE isnull(return_code)

\* The THE file lacked a column: the QS file was loaded, and main returned 1.
C20_Witness ==
    /\ pc = "main_done"
    /\ columns.the # TheColumns
    /\ qs_df # <<>>
    /\ return_code = 1

\* ------------------------------------------------------------------------
\* Claims about the scrapers
\* ------------------------------------------------------------------------

\* The rank is an integer: an int, a float without a fraction, or the text
\* of an integer (white space around it and a sign allowed).
IsIntegerRank(rank) ==
    IF isinstance_str(rank) THEN int_of_str(rank).error = ""
    ELSE \/ Head(rank) = "int"
         \/ /\ Head(rank) = "float"
            /\ find(rank, ".") > 0
            /\ SubSeq(rank, find(rank, ".") + 1, Len(rank)) = <<"0">>

\* The rank is a range "N-M" of two numbers.
IsRangeRank(rank) ==
    /\ isinstance_str(rank)
    /\ find(rank, "-") > 0
    /\ IsDigits(strip(first_of_split(rank)))
    /\ IsDigits(strip(SubSeq(rank, find(rank, "-") + 1, Len(rank))))

\* The N of an integer rank or of a range.
RankN(rank) ==
    IF IsRangeRank(rank) THEN int_of_str(first_of_split(rank)).value ELSE int(rank).value

\* C25: when the name is no key of the URL cache, a rank N or a range "N-M"
\* with 1 <= N <= cache size gives the URL of the N-th entry in insertion
\* order; every other rank gives None, and no call raises an error.
C25_PositionalFallback ==
    (pc \in {"url_returned", "url_raised"} /\ cache_index(university_urls, csv_name) = 0) =>
        /\ pc = "url_returned"
        /\ raised = Null
        /\ IF /\ IsIntegerRank(csv_rank) \/ IsRangeRank(csv_rank)
              /\ 1 <= RankN(csv_rank)
              /\ RankN(csv_rank) <= Len(university_urls)
           THEN url = university_urls[RankN(csv_rank)].url
           ELSE url = Null

\* The names of the rows of a table.
NamesIn(table) == { table[i].Name : i \in 1..Len(table) }

\* A row whose name is in the progress map is passed over: nothing is
\* requested from the site and no file changes.
SkippedWhenInProgress ==
    (in_loop /\ current_row.Name \in DOMAIN progress) =>
        /\ input_idx' = input_idx + 1
        /\ pc' = "loop"
        /\ fetched' = fetched
        /\ csv_output' = csv_output
        /\ progress' = progress
        /\ progress_file' = progress_file

\* A name enters the progress map only in the step after the one that
\* appended its row to the output file.
AddedAfterAppend ==
    \A n \in (DOMAIN progress') \ (DOMAIN progress) :
        /\ pc = "save_progress"
        /\ csv_output' = csv_output
        /\ csv_output # <<>>
        /\ csv_output[Len(csv_output)].Name = n
        /\ n = current_row.Name

\* The loop goes on to the next row from the URL lookup, the page fetch or
\* the save: one of them failed, and the name is in no progress map.
FailureNotAdded ==
    (pc \in {"loop", "fetch", "save"} /\ in_loop' = in_loop /\ input_idx' = input_idx + 1
        /\ current_row.Name \notin DOMAIN progress) =>
        /\ current_row.Name \notin DOMAIN progress'
        /\ current_row.Name \notin DOMAIN progress_file'

\* A new run starts from the progress file, and a row whose name is not in
\* the map is looked up again.
RetriedOnNextRun ==
    /\ (pc \in {"run_returned", "run_raised"} /\ pc' = "loop") => progress' = progress_file
    /\ (in_loop /\ current_row.Name \notin DOMAIN progress) =>
           /\ csv_name' = current_row.Name
           /\ url' = find_matching_url(university_urls, current_row.Name, current_row.Rank).url

\* C29: in QSScraper.run a row whose name is in the progress map is skipped
\* without a fetch or a write; a name is added to the progress map only after
\* its row was appended to the output CSV, so every name of the map has a row
\* there; and a name whose URL lookup, page fetch or CSV save failed is not
\* added, so the next run looks it up again.
C29_ProgressFollowsOutput ==
    /\ [](DOMAIN progress \cup DOMAIN progress_file \subseteq NamesIn(csv_output))
    /\ [][SkippedWhenInProgress /\ AddedAfterAppend /\ FailureNotAdded /\ RetriedOnNextRun]_vars

\* In the second run MIT, saved in the first, was skipped, and Stanford, whose
\* page failed to load in the first, was fetched again.
C29_Witness ==
    /\ runs = 1
    /\ pc = "run_returned"
    /\ "MIT" \in DOMAIN progress_file
    /\ Len(fetched) = 3
    /\ fetched[1].name = "MIT" /\ fetched[1].run = 1
    /\ fetched[2].name = "Stanford" /\ fetched[2].run = 1
    /\ fetched[3].name = "Stanford" /\ fetched[3].run = 2
    /\ NamesIn(csv_output) = {"MIT", "Stanford"}

\* The chunks put one after the other.
RECURSIVE ConcatAll(_)
ConcatAll(seqs) ==
    IF seqs = <<>> THEN <<>> ELSE Head(seqs) \o ConcatAll(Tail(seqs))

\* The Rank and Name cells of a row.
InputCells(row) == <<row.Rank, row.Name>>

\* C30: chunk_rows(df, n) with n >= 1 returns n chunks whose concatenation in
\* order is the rows of the table in their order; and a worker has appended
\* one row to out_rows for every row of its chunk it has passed, the rows of
\* the chunk in order, whatever the URL lookup, the page fetch and the
\* coordinate extraction gave, and writes just these rows to its file.
C30_ChunksAndWorkerRows ==
    pc # "call_chunk_rows" =>
        /\ Len(chunks) = n_chunks
        /\ ConcatAll(chunks) = df_input
        /\ \A w \in 1..n_chunks :
              /\ Len(out_rows[w]) = worker_idx[w] - 1
              /\ \A i \in 1..Len(out_rows[w]) :
                    InputCells(out_rows[w][i]) = InputCells(chunks[w][i])
              /\ worker_pc[w] = "done" =>
                    /\ Len(out_rows[w]) = Len(chunks[w])
                    /\ worker_output[w] \in {<<>>, out_rows[w]}

\* Four rows went to three workers as two, two and none; the first worker
\* found coordinates for its first row and none for its second, the second
\* worker had a row without a URL, and every worker has ended.
C30_Witness ==
    /\ pc = "joined"
    /\ n_chunks = 3
    /\ Len(df_input) = 4
    /\ Len(chunks[1]) = 2 /\ Len(chunks[2]) = 2 /\ chunks[3] = <<>>
    /\ out_rows[1][1].Latitude = "51.5"
    /\ out_rows[1][2].Name = "Stanford" /\ out_rows[1][2].Latitude = ""
    /\ out_rows[2][1].Name = "Yale"
    /\ worker_output[1] = out_rows[1]
    /\ worker_output[3] = <<>>

====
